---- MODULE Spec2Model ----
(***************************************************************************)
(* Authorization and authentication core of the reporting app:             *)
(*   permissions_service.py  PermissionsService, check_query_permissions   *)
(*   auth_middleware.py      UserContext, session cache, get_user_context  *)
(* Python strings are modelled as sequences of one-character strings, so   *)
(* that f-string concatenation, str.split, str.upper, str.replace and the  *)
(* table-reference regular expression are computed character by character. *)
(***************************************************************************)
EXTENDS Integers, Sequences, FiniteSets, TLC

VARIABLES
    permission_cache,   \* PermissionsService._permission_cache: email -> (cache_key -> bool)
    grants,             \* external privilege store: set of <<type, full_name, principal, privilege>>
    last,               \* observation of the most recent handler invocation
    session_cache,      \* auth_middleware._session_cache: token -> <<UserContext, cached_at>>
    now,                \* datetime.utcnow(), in minutes
    revoked,            \* external identity provider: rejected token -> time it was revoked at
    inflight,           \* the request suspended in the identity lookup, or NoRequest
    config_cache,       \* ConfigService._cache: cache key -> <<value, cached_at>>
    meta_active,        \* external metadata store: ids of the dashboard_queries rows with is_active
    requests            \* the requests running at the same time: request -> its position and locals

vars == <<permission_cache, grants, last, session_cache, now, revoked, inflight,
          config_cache, meta_active, requests>>

permVars == <<permission_cache, grants>>
authVars == <<session_cache, now, revoked, inflight>>
cfgVars == <<config_cache, meta_active>>
raceVars == <<requests>>

----------------------------------------------------------------------------
(* Strings *)

S_USAGE  == <<"U","S","A","G","E">>
S_SELECT == <<"S","E","L","E","C","T">>
S_FROM   == <<"F","R","O","M">>
S_JOIN   == <<"J","O","I","N">>
S_WHERE  == <<"W","H","E","R","E">>
DOT      == <<".">>
COLON    == <<":">>

\* str.upper(), one character
UpperChar(ch) ==
    CASE ch = "a" -> "A" [] ch = "b" -> "B" [] ch = "c" -> "C"
      [] ch = "d" -> "D" [] ch = "e" -> "E" [] ch = "f" -> "F"
      [] ch = "g" -> "G" [] ch = "h" -> "H" [] ch = "i" -> "I"
      [] ch = "j" -> "J" [] ch = "k" -> "K" [] ch = "l" -> "L"
      [] ch = "m" -> "M" [] ch = "n" -> "N" [] ch = "o" -> "O"
      [] ch = "p" -> "P" [] ch = "q" -> "Q" [] ch = "r" -> "R"
      [] ch = "s" -> "S" [] ch = "t" -> "T" [] ch = "u" -> "U"
      [] ch = "v" -> "V" [] ch = "w" -> "W" [] ch = "x" -> "X"
      [] ch = "y" -> "Y" [] ch = "z" -> "Z"
      [] OTHER -> ch

\* s[i:i+len(t)] == t
OccursAt(s, t, i) ==
    /\ i >= 1
    /\ i + Len(t) - 1 <= Len(s)
    /\ \A k \in 1..Len(t) : s[i + k - 1] = t[k]

\* t in s
Contains(s, t) == \E i \in 1..(Len(s) + 1) : OccursAt(s, t, i)

\* t in s.upper()
ContainsUpper(s, t) ==
    \E i \in 1..(Len(s) + 1) :
        /\ i + Len(t) - 1 <= Len(s)
        /\ \A k \in 1..Len(t) : UpperChar(s[i + k - 1]) = t[k]

RECURSIVE ReplaceFrom(_, _, _, _)
\* str.replace(old, new) scanning from index i: every non-overlapping
\* occurrence, left to right; the inserted text is not rescanned
ReplaceFrom(s, old, new, i) ==
    IF i > Len(s) THEN <<>>
    ELSE IF OccursAt(s, old, i)
         THEN new \o ReplaceFrom(s, old, new, i + Len(old))
         ELSE <<s[i]>> \o ReplaceFrom(s, old, new, i + 1)

StrReplace(s, old, new) == ReplaceFrom(s, old, new, 1)

RECURSIVE SplitFrom(_, _, _)
\* str.split(sep) for a one-character separator, scanning from index i with
\* the current piece acc
SplitFrom(s, i, acc) ==
    IF i > Len(s) THEN <<acc>>
    ELSE IF s[i] = "." THEN <<acc>> \o SplitFrom(s, i + 1, <<>>)
         ELSE SplitFrom(s, i + 1, Append(acc, s[i]))

StrSplitDot(s) == SplitFrom(s, 1, <<>>)

----------------------------------------------------------------------------
(* Users and resources *)

EmailA    == <<"a","@","b",".","c","o","m">>
EmailN    == <<"n","@","b",".","c","o","m">>
EmailR    == <<"r","@","b",".","c","o","m">>
EmailDev  == <<"d","e","v","@","e","x","a","m","p","l","e",".","c","o","m">>

\* UserContext(email, ..., is_admin, workspace_client), created at time t
UserContext(email, is_admin, has_client, t) ==
    [email |-> email, is_admin |-> is_admin, has_client |-> has_client,
     authenticated_at |-> t]

Alice == UserContext(EmailA, FALSE, TRUE, 0)    \* non-admin with a client handle
Nobody == UserContext(EmailN, FALSE, FALSE, 0)  \* non-admin without a client handle
Root == UserContext(EmailR, TRUE, TRUE, 0)      \* admin
PermUsers == {Alice, Nobody, Root}
NoUser == UserContext(<<>>, FALSE, FALSE, 0)

CatC == <<"c">>
CatD == <<"d">>
SchS == <<"s">>
SchX == <<"x">>
TabT == <<"t">>
TabU == <<"u">>
HiveMetastore == <<"h","i","v","e","_","m","e","t","a","s","t","o","r","e">>

Privileges == {S_USAGE, S_SELECT}

\* f"{catalog_name}.{schema_name}", f"{catalog_name}.{schema_name}.{table_name}"
SchemaFullName(c, s) == c \o DOT \o s
TableFullName(c, s, t) == c \o DOT \o s \o DOT \o t

\* securables that exist in the catalog service; a lookup of any other name
\* raises NotFound
Securables ==
    {CatC, SchemaFullName(CatC, SchS),
     TableFullName(CatC, SchS, TabT), TableFullName(CatC, SchS, TabU),
     CatD, SchemaFullName(CatD, SchS)}

\* grants the privilege store may hold
GrantUniverse ==
    {<<"CATALOG", CatC, EmailA, S_USAGE>>,
     <<"SCHEMA", SchemaFullName(CatC, SchS), EmailA, S_USAGE>>,
     <<"TABLE", TableFullName(CatC, SchS, TabT), EmailA, S_SELECT>>,
     <<"TABLE", TableFullName(CatC, SchS, TabU), EmailA, S_SELECT>>}

\* external calls that may raise during one handler invocation
StoreOps == {"catalogs.get", "grants.CATALOG", "grants.SCHEMA", "grants.TABLE"}
FailureModes == {{}} \cup {{op} : op \in StoreOps}

----------------------------------------------------------------------------
(* PermissionsService: the permission cache and the three checks *)

EmptyMap == [k \in {} |-> FALSE]

\* f"{user_context.email}:{full_name}:{required_privilege}"
cache_key(email, full_name, privilege) ==
    email \o COLON \o full_name \o COLON \o privilege

\* self._permission_cache.get(email, {})
CacheOf(cache, email) == IF email \in DOMAIN cache THEN cache[email] ELSE EmptyMap

\* cache_key in self._permission_cache.get(email, {})
CacheHas(cache, email, key) == key \in DOMAIN CacheOf(cache, email)

\* self._permission_cache[email][cache_key] = has_access, creating the
\* user's dictionary first when it is missing
CacheStore(cache, email, key, v) ==
    LET inner == CacheOf(cache, email)
        inner2 == [k \in DOMAIN inner \cup {key} |-> IF k = key THEN v ELSE inner[k]]
    IN [e \in DOMAIN cache \cup {email} |-> IF e = email THEN inner2 ELSE cache[e]]

\* one step of a handler, kept in the order it happened
Ev(kind, name, val) == [kind |-> kind, name |-> name, val |-> val]

\* what a check hands back: its return value, whether an exception escaped
\* it, the cache afterwards and the steps it took
R(ret, raised, cache, trace) ==
    [ret |-> ret, raised |-> raised, cache |-> cache, trace |-> trace]

\* grants.get_effective(securable_type, full_name, principal): raises when the
\* endpoint is down or the securable does not exist
GrantsOp(type) ==
    CASE type = "CATALOG" -> "grants.CATALOG"
      [] type = "SCHEMA" -> "grants.SCHEMA"
      [] OTHER -> "grants.TABLE"

GrantsRaises(down, type, full_name) ==
    GrantsOp(type) \in down \/ full_name \notin Securables

\* any(grant.privilege.value == required_privilege for grant in ...)
HasPrivilege(g, type, full_name, principal, privilege) ==
    <<type, full_name, principal, privilege>> \in g

\* a lookup whose except branch grants: "return True" where the code has
\* "return False"
LookupAndCache_FailOpen(cache, g, u, type, full_name, privilege, down, pre) ==
    LET key == cache_key(u.email, full_name, privilege)
        hit == CacheHas(cache, u.email, key)
        probe == pre \o <<Ev("cache.read", key, hit)>>
        getEv == IF type = "CATALOG"
                 THEN <<Ev("catalogs.get", full_name,
                           ~("catalogs.get" \in down \/ full_name \notin Securables))>>
                 ELSE <<>>
        getRaises == type = "CATALOG" /\ ("catalogs.get" \in down \/ full_name \notin Securables)
    IN IF hit THEN R(cache[u.email][key], FALSE, cache, probe)
       ELSE IF ~u.has_client THEN R(FALSE, FALSE, cache, probe)
       ELSE IF getRaises THEN R(TRUE, FALSE, cache, probe \o getEv)
       ELSE IF GrantsRaises(down, type, full_name)
            THEN R(TRUE, FALSE, cache,
                   probe \o getEv \o <<Ev(GrantsOp(type), full_name, FALSE)>>)
       ELSE LET has_access == HasPrivilege(g, type, full_name, u.email, privilege)
            IN R(has_access, FALSE, CacheStore(cache, u.email, key, has_access),
                 probe \o getEv \o <<Ev(GrantsOp(type), full_name, TRUE),
                                     Ev("cache.write", key, has_access)>>)

\* a lookup that asks the store again although the result is cached, and
\* overwrites the entry
LookupAndCache_Revalidate(cache, g, u, type, full_name, privilege, down, pre) ==
    LET key == cache_key(u.email, full_name, privilege)
        probe == pre \o <<Ev("cache.read", key, CacheHas(cache, u.email, key))>>
    IN IF ~u.has_client \/ GrantsRaises(down, type, full_name)
       THEN R(FALSE, FALSE, cache, probe)
       ELSE R(HasPrivilege(g, type, full_name, u.email, privilege), FALSE,
              CacheStore(cache, u.email, key,
                         HasPrivilege(g, type, full_name, u.email, privilege)),
              probe \o <<Ev(GrantsOp(type), full_name, TRUE)>>)

\* the part of a check after its admin bypass and parent check: cache
\* lookup, then the store lookup inside try/except
LookupAndCache(cache, g, u, type, full_name, privilege, down, pre) ==
    LET key == cache_key(u.email, full_name, privilege)
        hit == CacheHas(cache, u.email, key)
        probe == pre \o <<Ev("cache.read", key, hit)>>
        getEv == IF type = "CATALOG"
                 THEN <<Ev("catalogs.get", full_name,
                           ~("catalogs.get" \in down \/ full_name \notin Securables))>>
                 ELSE <<>>
        getRaises == type = "CATALOG" /\ ("catalogs.get" \in down \/ full_name \notin Securables)
    IN IF hit THEN R(cache[u.email][key], FALSE, cache, probe)
       ELSE IF ~u.has_client THEN R(FALSE, FALSE, cache, probe)
       ELSE IF getRaises THEN R(FALSE, FALSE, cache, probe \o getEv)
       ELSE IF GrantsRaises(down, type, full_name)
            THEN R(FALSE, FALSE, cache,
                   probe \o getEv \o <<Ev(GrantsOp(type), full_name, FALSE)>>)
       ELSE LET has_access == HasPrivilege(g, type, full_name, u.email, privilege)
            IN R(has_access, FALSE, CacheStore(cache, u.email, key, has_access),
                 probe \o getEv \o <<Ev(GrantsOp(type), full_name, TRUE),
                                     Ev("cache.write", key, has_access)>>)

check_catalog_access(cache, g, u, catalog_name, required_privilege, down) ==
    IF u.is_admin THEN R(TRUE, FALSE, cache, <<>>)
    ELSE LookupAndCache(cache, g, u, "CATALOG", catalog_name, required_privilege,
                        down, <<>>)

\* a child check that goes on to look the child up whatever the parent check
\* returned
AfterParentCheck_IgnoreParent(parent, parent_op, parent_name, g, u, type, full_name, required_privilege, down) ==
    LookupAndCache(parent.cache, g, u, type, full_name, required_privilege, down,
                   parent.trace \o <<Ev(parent_op, parent_name, parent.ret)>>)

\* the part of check_schema_access and check_table_access after the parent
\* check has returned parent: "if not self.check_..._access(...): return False",
\* then the cache and store lookup of the child
AfterParentCheck(parent, parent_op, parent_name, g, u, type, full_name, required_privilege, down) ==
    IF ~parent.ret
    THEN R(FALSE, FALSE, parent.cache,
           parent.trace \o <<Ev(parent_op, parent_name, FALSE)>>)
    ELSE LookupAndCache(parent.cache, g, u, type, full_name, required_privilege, down,
                        parent.trace \o <<Ev(parent_op, parent_name, TRUE)>>)

check_schema_access(cache, g, u, catalog_name, schema_name, required_privilege, down) ==
    IF u.is_admin THEN R(TRUE, FALSE, cache, <<>>)
    ELSE AfterParentCheck(
             check_catalog_access(cache, g, u, catalog_name, S_USAGE, down),
             "check_catalog_access", catalog_name, g, u, "SCHEMA",
             SchemaFullName(catalog_name, schema_name), required_privilege, down)

\* a table check without the line "if user_context.is_admin: return True"
check_table_access_NoBypass(cache, g, u, catalog_name, schema_name, table_name, required_privilege, down) ==
    AfterParentCheck(
        check_schema_access(cache, g, u, catalog_name, schema_name, S_USAGE, down),
        "check_schema_access", SchemaFullName(catalog_name, schema_name), g, u,
        "TABLE", TableFullName(catalog_name, schema_name, table_name),
        required_privilege, down)

check_table_access(cache, g, u, catalog_name, schema_name, table_name, required_privilege, down) ==
    IF u.is_admin THEN R(TRUE, FALSE, cache, <<>>)
    ELSE AfterParentCheck(
             check_schema_access(cache, g, u, catalog_name, schema_name, S_USAGE, down),
             "check_schema_access", SchemaFullName(catalog_name, schema_name), g, u,
             "TABLE", TableFullName(catalog_name, schema_name, table_name),
             required_privilege, down)

\* clear_cache(user_email): one user's entries, or all of them for None
clear_cache(cache, user_email) ==
    IF user_email # <<>>
    THEN [e \in DOMAIN cache \ {user_email} |-> cache[e]]
    ELSE [e \in {} |-> EmptyMap]

----------------------------------------------------------------------------
(* Inputs of the query handlers *)

\* SELECT * FROM c.s.t: one three-segment reference
Q_One ==
    <<"S","E","L","E","C","T"," ","*"," ","F","R","O","M"," ","c",".","s",
      ".","t">>

\* SELECT * FROM c.s.t JOIN c.s.u: two references, in this order
Q_Join ==
    <<"S","E","L","E","C","T"," ","*"," ","F","R","O","M"," ","c",".","s",
      ".","t"," ","J","O","I","N"," ","c",".","s",".","u">>

\* SELECT * FROM t WHERE active = true: a single-segment table name, with a WHERE clause
Q_Bare ==
    <<"S","E","L","E","C","T"," ","*"," ","F","R","O","M"," ","t"," ","W",
      "H","E","R","E"," ","a","c","t","i","v","e"," ","="," ","t","r","u",
      "e">>

\* SELECT * FROM "c"."s"."t": quoted identifiers
Q_Quoted ==
    <<"S","E","L","E","C","T"," ","*"," ","F","R","O","M"," ","\"","c",
      "\"",".","\"","s","\"",".","\"","t","\"">>

\* SELECT * FROM s.t: a two-segment reference: default catalog
Q_TwoPart ==
    <<"S","E","L","E","C","T"," ","*"," ","F","R","O","M"," ","s",".","t">>

\* select * from c.s.u where x = 1: lower-case keywords
Q_Lower ==
    <<"s","e","l","e","c","t"," ","*"," ","f","r","o","m"," ","c",".","s",
      ".","u"," ","w","h","e","r","e"," ","x"," ","="," ","1">>

Statements == {Q_One, Q_Join, Q_Bare, Q_Quoted, Q_TwoPart, Q_Lower}

\* table_filters arguments: None (or an empty dictionary) and a dictionary
\* with one filter
NoFilters == {}
SomeFilters == {<<TableFullName(CatC, SchS, TabT), <<"x"," ","="," ","1">>>>}
TableFilterArgs == {NoFilters, SomeFilters}

----------------------------------------------------------------------------
(* Table-reference extraction: re.findall(pattern, sql, re.IGNORECASE) with *)
(* pattern (?:FROM|JOIN)\s+([a-zA-Z0-9_]+(?:\.[a-zA-Z0-9_]+){1,2})          *)

IdentChars ==
    {"a","b","c","d","e","f","g","h","i","j","k","l","m",
     "n","o","p","q","r","s","t","u","v","w","x","y","z",
     "A","B","C","D","E","F","G","H","I","J","K","L","M",
     "N","O","P","Q","R","S","T","U","V","W","X","Y","Z",
     "0","1","2","3","4","5","6","7","8","9","_"}
SpaceChars == {" ", "\t", "\n"}

RECURSIVE SpanEnd(_, _, _)
\* first index >= i whose character is not in set (Len(s) + 1 at the end):
\* where a greedy [set]* starting at i stops
SpanEnd(s, i, set) ==
    IF i <= Len(s) /\ s[i] \in set THEN SpanEnd(s, i + 1, set) ELSE i

\* (?:FROM|JOIN) at index i, ignoring case
KeywordAt(s, i) ==
    /\ i + 3 <= Len(s)
    /\ \E kw \in {S_FROM, S_JOIN} : \A k \in 1..4 : UpperChar(s[i + k - 1]) = kw[k]

\* \.[a-zA-Z0-9_]+ at index i: the index after it, or 0 when it does not match
DotSegmentEnd(s, i) ==
    IF i <= Len(s) /\ s[i] = "." /\ SpanEnd(s, i + 1, IdentChars) > i + 1
    THEN SpanEnd(s, i + 1, IdentChars)
    ELSE 0

\* \s+([a-zA-Z0-9_]+(?:\.[a-zA-Z0-9_]+){1,2}) at index i, after the
\* keyword: the index after the match, or 0 when it does not match. The
\* greedy identifier cannot give characters back to the dotted part, so the
\* match is decided without backtracking.
ReferenceEnd(s, i) ==
    LET ws == SpanEnd(s, i, SpaceChars)
        id == SpanEnd(s, ws, IdentChars)
        d1 == DotSegmentEnd(s, id)
        d2 == DotSegmentEnd(s, d1)
    IN IF ws = i \/ id = ws THEN 0
       ELSE IF d1 = 0 THEN 0
       ELSE IF d2 = 0 THEN d1
       ELSE d2

RECURSIVE FindAllFrom(_, _)
\* re.findall: the captured group of every non-overlapping match, left to
\* right
FindAllFrom(s, i) ==
    IF i > Len(s) THEN <<>>
    ELSE IF ~KeywordAt(s, i) THEN FindAllFrom(s, i + 1)
    ELSE IF ReferenceEnd(s, i + 4) = 0 THEN FindAllFrom(s, i + 1)
    ELSE <<SubSeq(s, SpanEnd(s, i + 4, SpaceChars), ReferenceEnd(s, i + 4) - 1)>>
         \o FindAllFrom(s, ReferenceEnd(s, i + 4))

extract_table_references(sql) == FindAllFrom(sql, 1)

----------------------------------------------------------------------------
(* Query validation, row-level security and the authorization pipeline *)

S_AccessDenied ==
    <<"A","c","c","e","s","s"," ","d","e","n","i","e","d"," ","t","o"," ",
      "t","a","b","l","e"," ">>
S_CurrentUser ==
    <<"W","H","E","R","E"," ","c","u","r","r","e","n","t","_","u","s","e","r",
      "(",")"," ","="," ","'">>
S_QuoteAnd == <<"'"," ","A","N","D">>
NoReason == <<>>

\* what validate_query_permissions hands back: (is_valid, error_message), the
\* cache afterwards and the steps it took
V(ok, reason, cache, trace) ==
    [ok |-> ok, reason |-> reason, cache |-> cache, trace |-> trace]

\* catalog, schema and table of a reference of two or three segments:
\* "catalog, schema, table = parts", or the default catalog for two
RefCatalog(parts) == IF Len(parts) = 3 THEN parts[1] ELSE HiveMetastore
RefSchema(parts) == IF Len(parts) = 3 THEN parts[2] ELSE parts[1]
RefTable(parts) == IF Len(parts) = 3 THEN parts[3] ELSE parts[2]

RECURSIVE ValidateTables(_, _, _, _, _, _, _)
RECURSIVE AfterTableCheck(_, _, _, _, _, _, _)
\* a loop body whose message names the first reference of the statement
\* instead of the denied one
AfterTableCheck_FirstName(c, g, u, tables, i, down, trace) ==
    IF ~c.ret
    THEN V(FALSE, S_AccessDenied \o tables[1], c.cache,
           trace \o c.trace \o <<Ev("check_table_access", tables[i], FALSE)>>)
    ELSE ValidateTables(c.cache, g, u, tables, i + 1, down,
           trace \o c.trace \o <<Ev("check_table_access", tables[i], TRUE)>>)

\* the body of the for loop after check_table_access has returned c for
\* tables[i]: the first denied reference ends the validation
AfterTableCheck(c, g, u, tables, i, down, trace) ==
    IF ~c.ret
    THEN V(FALSE, S_AccessDenied \o tables[i], c.cache,
           trace \o c.trace \o <<Ev("check_table_access", tables[i], FALSE)>>)
    ELSE ValidateTables(c.cache, g, u, tables, i + 1, down,
           trace \o c.trace \o <<Ev("check_table_access", tables[i], TRUE)>>)

\* the for loop of validate_query_permissions over tables[i..]
ValidateTables(cache, g, u, tables, i, down, trace) ==
    IF i > Len(tables) THEN V(TRUE, NoReason, cache, trace)
    ELSE IF Len(StrSplitDot(tables[i])) \in {2, 3}
         THEN AfterTableCheck(
                  check_table_access(cache, g, u,
                                     RefCatalog(StrSplitDot(tables[i])),
                                     RefSchema(StrSplitDot(tables[i])),
                                     RefTable(StrSplitDot(tables[i])),
                                     S_SELECT, down),
                  g, u, tables, i, down, trace)
         ELSE ValidateTables(cache, g, u, tables, i + 1, down, trace)

validate_query_permissions(cache, g, sql, u, down) ==
    IF u.is_admin THEN V(TRUE, NoReason, cache, <<>>)
    ELSE ValidateTables(cache, g, u, extract_table_references(sql), 1, down, <<>>)

\* a default filter that appends a WHERE clause to a statement without one
DefaultFilter_Append(sql, email) ==
    IF ContainsUpper(sql, S_WHERE)
    THEN StrReplace(sql, S_WHERE, S_CurrentUser \o email \o S_QuoteAnd)
    ELSE sql \o <<" ">> \o S_CurrentUser \o email \o <<"'">>

\* the default filter: "WHERE" in sql.upper(), then
\* sql.replace("WHERE", f"WHERE current_user() = '{email}' AND")
DefaultFilter(sql, email) ==
    IF ContainsUpper(sql, S_WHERE)
    THEN StrReplace(sql, S_WHERE, S_CurrentUser \o email \o S_QuoteAnd)
    ELSE sql

\* an injection that applies the default filter whatever table_filters holds
inject_row_level_security_AlwaysDefault(sql, u, table_filters) ==
    IF u.is_admin THEN sql ELSE DefaultFilter(sql, u.email)

\* table_filters: None or a dictionary; only its truthiness is read
inject_row_level_security(sql, u, table_filters) ==
    IF u.is_admin THEN sql
    ELSE IF table_filters = {}
         THEN DefaultFilter(sql, u.email)
         ELSE sql

\* audit_log_access(user_context, resource, action, granted): one event to
\* the audit sink
audit_log_access(u, granted) == Ev("audit", u.email, granted)

\* what check_query_permissions hands back: the SQL it returns (or <<>>), the
\* exception it raises ("none" or "PermissionError") with its message, the
\* cache afterwards and the steps it took
P(sql, raised, reason, cache, trace) ==
    [sql |-> sql, raised |-> raised, reason |-> reason, cache |-> cache,
     trace |-> trace]

\* a pipeline that logs the denial but lacks "raise PermissionError(error_msg)"
AfterValidation_NoRaise(v, sql, u) ==
    P(inject_row_level_security(sql, u, {}), "none", NoReason, v.cache,
      v.trace \o <<Ev("validate_query_permissions", sql, v.ok)>>
              \o (IF v.ok THEN <<>> ELSE <<audit_log_access(u, FALSE)>>)
              \o <<Ev("inject_row_level_security",
                      inject_row_level_security(sql, u, {}), TRUE),
                   audit_log_access(u, TRUE)>>)

\* a pipeline that logs the grant before it injects row-level security
AfterValidation_AuditFirst(v, sql, u) ==
    IF ~v.ok
    THEN P(<<>>, "PermissionError", v.reason, v.cache,
           v.trace \o <<Ev("validate_query_permissions", sql, FALSE),
                        audit_log_access(u, FALSE)>>)
    ELSE P(inject_row_level_security(sql, u, {}), "none", NoReason, v.cache,
           v.trace \o <<Ev("validate_query_permissions", sql, TRUE),
                        audit_log_access(u, TRUE),
                        Ev("inject_row_level_security",
                           inject_row_level_security(sql, u, {}), TRUE)>>)

\* check_query_permissions after validate_query_permissions has returned v
AfterValidation(v, sql, u) ==
    IF ~v.ok
    THEN P(<<>>, "PermissionError", v.reason, v.cache,
           v.trace \o <<Ev("validate_query_permissions", sql, FALSE),
                        audit_log_access(u, FALSE)>>)
    ELSE P(inject_row_level_security(sql, u, {}), "none", NoReason, v.cache,
           v.trace \o <<Ev("validate_query_permissions", sql, TRUE),
                        Ev("inject_row_level_security",
                           inject_row_level_security(sql, u, {}), TRUE),
                        audit_log_access(u, TRUE)>>)

check_query_permissions(cache, g, sql, u, down) ==
    AfterValidation(validate_query_permissions(cache, g, sql, u, down), sql, u)

----------------------------------------------------------------------------
(* auth_middleware: identity lookup, session cache, the two dependencies *)

cache_ttl_minutes == 5
SessionMaxAgeMinutes == 60
MaxTime == 6

Tok1 == <<"t","o","k","-","1">>
Tok2 == <<"t","o","k","-","2">>
Tokens == {Tok1, Tok2}
NoCredential == <<>>

\* tokens the identity provider may come to reject
Revocable == {Tok1}

G_users ==
    <<"u","s","e","r","s">>
G_Admins ==
    <<"A","d","m","i","n","s">>
AdminGroupNames ==
    {<<"a","d","m","i","n","s">>,
     <<"a","c","c","o","u","n","t"," ","a","d","m","i","n","s">>,
     <<"w","o","r","k","s","p","a","c","e"," ","a","d","m","i","n","s">>}

\* client.current_user.me() for a token the identity provider accepts
CurrentUser(token) ==
    IF token = Tok1 THEN [email |-> EmailA, groups |-> {G_users}]
    ELSE [email |-> EmailR, groups |-> {G_users, G_Admins}]

\* str.lower(), one character
LowerChar(ch) ==
    CASE ch = "A" -> "a" [] ch = "B" -> "b" [] ch = "C" -> "c"
      [] ch = "D" -> "d" [] ch = "E" -> "e" [] ch = "F" -> "f"
      [] ch = "G" -> "g" [] ch = "H" -> "h" [] ch = "I" -> "i"
      [] ch = "J" -> "j" [] ch = "K" -> "k" [] ch = "L" -> "l"
      [] ch = "M" -> "m" [] ch = "N" -> "n" [] ch = "O" -> "o"
      [] ch = "P" -> "p" [] ch = "Q" -> "q" [] ch = "R" -> "r"
      [] ch = "S" -> "s" [] ch = "T" -> "t" [] ch = "U" -> "u"
      [] ch = "V" -> "v" [] ch = "W" -> "w" [] ch = "X" -> "x"
      [] ch = "Y" -> "y" [] ch = "Z" -> "z"
      [] OTHER -> ch

StrLower(s) == [i \in DOMAIN s |-> LowerChar(s[i])]

\* any(group in ["admins", "account admins", "workspace admins"]
\*     for group in [g.lower() for g in groups])
IsAdminGroups(groups) == \E g \in groups : StrLower(g) \in AdminGroupNames

\* extract_user_from_token when the lookup succeeds at time t
extract_user_from_token(token, t) ==
    LET me == CurrentUser(token)
    IN UserContext(me.email, IsAdminGroups(me.groups), TRUE, t)

\* a validity test that still accepts a session exactly max_age_minutes old
is_session_valid_Inclusive(u, t, max_age_minutes) == t - u.authenticated_at <= max_age_minutes

\* UserContext.is_session_valid(max_age_minutes) evaluated at time t
is_session_valid(u, t, max_age_minutes) == t - u.authenticated_at < max_age_minutes

\* the synthetic identity of development mode, created at time t
DevUser(t) == UserContext(EmailDev, TRUE, FALSE, t)

DevModeValues == {"unset", "true", "True", "1", "false"}

\* a development switch read as a truthy flag rather than compared with "true"
no_credentials_Truthy(env, t) ==
    IF env \in {"true", "True", "1"}
    THEN [raised |-> "none", user |-> DevUser(t)]
    ELSE [raised |-> "AuthenticationError", user |-> NoUser]

\* the branch "if not credentials" of get_user_context and
\* get_user_context_cached, with env = os.getenv("DEV_MODE")
no_credentials(env, t) ==
    IF env = "true"
    THEN [raised |-> "none", user |-> DevUser(t)]
    ELSE [raised |-> "AuthenticationError", user |-> NoUser]

\* a lookup that answers a failure with the identity of the no-credential
\* branch
lookup_outcome_Downgrade(token, answer, env, t) ==
    IF answer
    THEN [raised |-> "none", user |-> extract_user_from_token(token, t)]
    ELSE no_credentials(env, t)

\* "await extract_user_from_token(token)" seen by its caller: the UserContext,
\* or AuthenticationError for whatever was raised inside its try block;
\* DEV_MODE is not read on this path
lookup_outcome(token, answer, env, t) ==
    IF answer
    THEN [raised |-> "none", user |-> extract_user_from_token(token, t)]
    ELSE [raised |-> "AuthenticationError", user |-> NoUser]

\* a session cache that still serves an entry exactly as old as the TTL
get_cached_session_Inclusive(cache, token, t) ==
    IF token \notin DOMAIN cache
    THEN [hit |-> FALSE, user |-> NoUser, cache |-> cache]
    ELSE IF t - cache[token][2] <= cache_ttl_minutes
         THEN [hit |-> TRUE, user |-> cache[token][1], cache |-> cache]
         ELSE [hit |-> FALSE, user |-> NoUser,
               cache |-> [k \in DOMAIN cache \ {token} |-> cache[k]]]

\* get_cached_session(token) at time t: the cached user if the entry is
\* younger than the TTL; a stale entry is deleted
get_cached_session(cache, token, t) ==
    IF token \notin DOMAIN cache
    THEN [hit |-> FALSE, user |-> NoUser, cache |-> cache]
    ELSE IF t - cache[token][2] < cache_ttl_minutes
         THEN [hit |-> TRUE, user |-> cache[token][1], cache |-> cache]
         ELSE [hit |-> FALSE, user |-> NoUser,
               cache |-> [k \in DOMAIN cache \ {token} |-> cache[k]]]

\* cache_user_session(token, user) at time t
cache_user_session_KeepFirst(cache, token, user, t) ==
    IF token \in DOMAIN cache THEN cache
    ELSE [k \in DOMAIN cache \cup {token} |->
             IF k = token THEN <<user, t>> ELSE cache[k]]

cache_user_session(cache, token, user, t) ==
    [k \in DOMAIN cache \cup {token} |-> IF k = token THEN <<user, t>> ELSE cache[k]]

----------------------------------------------------------------------------
(* config_service: the metadata store, the configuration cache, templating *)

\* an optional value: None, or a string
None == [some |-> FALSE, v |-> <<>>]
Some(v) == [some |-> TRUE, v |-> v]

N_region == <<"r","e","g","i","o","n">>
N_a == <<"a">>
N_b == <<"b">>
N_c == <<"c">>
N_r1 == <<"r","1">>
N_r2 == <<"r","2">>
V_west == <<"w","e","s","t">>

\* f"${{{param_name}}}"
Placeholder(param_name) == <<"$","{">> \o param_name \o <<"}">>

\* one entry of QueryConfig.parameters
ParamDef(name, required, default_value) ==
    [name |-> name, required |-> required, default_value |-> default_value]

Id_q1 == <<"q","1">>
Id_q2 == <<"q","2">>
Id_q3 == <<"q","3">>
Id_q4 == <<"q","4">>
Id_q5 == <<"q","5">>
Id_unknown == <<"q","9">>

\* SELECT * FROM t WHERE region = '${region}'
T_q1 ==
    <<"S","E","L","E","C","T"," ","*"," ","F","R","O","M"," ","t"," ","W",
      "H","E","R","E"," ","r","e","g","i","o","n"," ","="," ","'">>
    \o Placeholder(N_region) \o <<"'">>

\* ${a},${b},${a}
T_q2 == Placeholder(N_a) \o <<",">> \o Placeholder(N_b) \o <<",">> \o Placeholder(N_a)

\* x=${c}
T_q3 == <<"x","=">> \o Placeholder(N_c)

\* y=${z}
T_q4 == <<"y","=">> \o Placeholder(<<"z">>)

\* ${r1}/${r2}
T_q5 == Placeholder(N_r1) \o <<"/">> \o Placeholder(N_r2)

\* the rows of dashboard_queries, as QueryConfig records:
\*   q1  region required, without default
\*   q2  a optional with default "da"; b required, with default "db"
\*   q3  c optional, without default
\*   q4  no parameter declared, one placeholder in the template
\*   q5  r1 and r2 required, without default
QueryConfig(id) ==
    CASE id = Id_q1 ->
           [id |-> id, sql_template |-> T_q1,
            parameters |-> <<ParamDef(N_region, TRUE, None)>>]
      [] id = Id_q2 ->
           [id |-> id, sql_template |-> T_q2,
            parameters |-> <<ParamDef(N_a, FALSE, Some(<<"d","a">>)),
                             ParamDef(N_b, TRUE, Some(<<"d","b">>))>>]
      [] id = Id_q3 ->
           [id |-> id, sql_template |-> T_q3,
            parameters |-> <<ParamDef(N_c, FALSE, None)>>]
      [] id = Id_q5 ->
           [id |-> id, sql_template |-> T_q5,
            parameters |-> <<ParamDef(N_r1, TRUE, None), ParamDef(N_r2, TRUE, None)>>]
      [] OTHER ->
           [id |-> id, sql_template |-> T_q4, parameters |-> <<>>]

QueryRows == {Id_q1, Id_q2, Id_q3, Id_q4, Id_q5}

\* params arguments: each name absent or given one of its values
ParamValues(name) ==
    CASE name = N_region -> {V_west}
      [] name = N_a -> {<<"1">>, Placeholder(N_b)}
      [] name = N_b -> {<<"2">>}
      [] name = N_r1 -> {<<"4">>}
      [] name = N_r2 -> {<<"5">>}
      [] OTHER -> {<<"3">>}

ParamNames == {N_region, N_a, N_b, N_c, N_r1, N_r2}

ParamMaps ==
    UNION {{f \in [names -> UNION {ParamValues(n) : n \in names}] :
               \A n \in names : f[n] \in ParamValues(n)} : names \in SUBSET ParamNames}

\* params.get(param_name)
ParamGet(params, param_name) ==
    IF param_name \in DOMAIN params THEN Some(params[param_name]) ELSE None

S_NotFound ==
    <<"Q","u","e","r","y"," ","c","o","n","f","i","g","u","r","a","t","i","o",
      "n"," ","n","o","t"," ","f","o","u","n","d",":"," ">>
S_RequiredMissing ==
    <<"R","e","q","u","i","r","e","d"," ","p","a","r","a","m","e","t","e","r",
      " ","m","i","s","s","i","n","g",":"," ">>

\* what build_query_from_template hands back: the SQL (or <<>>) and the
\* exception it raises ("none" or "ValueError") with its message
B(sql, raised, reason) == [sql |-> sql, raised |-> raised, reason |-> reason]

\* the value the loop body settles on for one parameter: the one in params,
\* else the declared default
ParamResolved(param_def, params) ==
    IF ParamGet(params, param_def.name).some
    THEN ParamGet(params, param_def.name)
    ELSE param_def.default_value

\* a loop body that falls back on the declared default before it looks at
\* the required flag
required_missing_UnlessDefault(param_def, params) ==
    /\ ~ParamGet(params, param_def.name).some
    /\ param_def.required
    /\ ~param_def.default_value.some

\* param_value is None and param_def.get('required', False): the loop raises
required_missing(param_def, params) ==
    ~ParamGet(params, param_def.name).some /\ param_def.required

RECURSIVE Substitute(_, _, _, _)
\* the for loop over config.parameters[i..], with sql as rendered so far
Substitute(sql, parameters, i, params) ==
    IF i > Len(parameters) THEN B(sql, "none", <<>>)
    ELSE IF required_missing(parameters[i], params)
         THEN B(<<>>, "ValueError", S_RequiredMissing \o parameters[i].name)
    ELSE IF ParamResolved(parameters[i], params).some
         THEN Substitute(StrReplace(sql, Placeholder(parameters[i].name),
                                    ParamResolved(parameters[i], params).v),
                         parameters, i + 1, params)
    ELSE Substitute(sql, parameters, i + 1, params)

\* timedelta(minutes=5)
config_cache_ttl == 5

S_all == <<"a","l","l">>
S_query_ == <<"q","u","e","r","y","_">>
S_queries_ == <<"q","u","e","r","i","e","s","_">>
S_filters_ == <<"f","i","l","t","e","r","s","_">>
S_viz_ == <<"v","i","z","_">>
UNDERSCORE == <<"_">>

\* "x or 'all'" for an optional string x: None and the empty string are falsy
OrAll(x) == IF x.some /\ x.v # <<>> THEN x.v ELSE S_all

\* the cache keys of the read-through methods
QueryKey(query_id) == S_query_ \o query_id
QueriesKey(category) == S_queries_ \o OrAll(category)
FiltersKey(filter_type, tab) == S_filters_ \o OrAll(filter_type) \o UNDERSCORE \o OrAll(tab)
VizKey(tab) == S_viz_ \o OrAll(tab)

\* values that are cached and returned: None, one QueryConfig, or a list
NoValue == [kind |-> "none", rows |-> <<>>]
ConfigValue(row) == [kind |-> "config", rows |-> <<row>>]
ListValue(rows) == [kind |-> "list", rows |-> rows]

\* bool(value): None and the empty list are falsy, a dataclass instance is truthy
Truthy(value) == value.kind = "config" \/ (value.kind = "list" /\ value.rows # <<>>)

\* _get_cached(key) at time t: the value if the entry is younger than the
\* TTL; a stale entry is deleted
get_cached(cache, key, t) ==
    IF key \notin DOMAIN cache
    THEN [value |-> NoValue, cache |-> cache]
    ELSE IF t - cache[key][2] < config_cache_ttl
         THEN [value |-> cache[key][1], cache |-> cache]
         ELSE [value |-> NoValue, cache |-> [k \in DOMAIN cache \ {key} |-> cache[k]]]

\* _set_cached(key, value) at time t
set_cached(cache, key, value, t) ==
    [k \in DOMAIN cache \cup {key} |-> IF k = key THEN <<value, t>> ELSE cache[k]]

\* what a read-through method hands back: its value, the exception that
\* escaped it ("none" or "Exception"), the cache afterwards, the steps it took
CfgR(value, raised, cache, trace) ==
    [value |-> value, raised |-> raised, cache |-> cache, trace |-> trace]

\* a read-through method after _get_cached has returned c: "if cached: return
\* cached", else _execute_query (which raises when the store is down), the
\* early "return None" of get_query_config, _set_cached and return
AfterGetCached(c, key, result, down, t) ==
    IF Truthy(c.value)
    THEN CfgR(c.value, "none", c.cache, <<Ev("config.read", key, TRUE)>>)
    ELSE IF down
    THEN CfgR(NoValue, "Exception", c.cache,
              <<Ev("config.read", key, FALSE), Ev("metadata.query", key, FALSE)>>)
    ELSE IF result.kind = "none"
    THEN CfgR(NoValue, "none", c.cache,
              <<Ev("config.read", key, FALSE), Ev("metadata.query", key, TRUE)>>)
    ELSE CfgR(result, "none", set_cached(c.cache, key, result, t),
              <<Ev("config.read", key, FALSE), Ev("metadata.query", key, TRUE),
                Ev("config.write", key, TRUE)>>)

\* the rows of the metadata tables, in the order of their ORDER BY
QueryRowsOrdered == <<Id_q1, Id_q2, Id_q3, Id_q4, Id_q5>>
RowCategory(id) == <<"m">>
T_tab1 == <<"t","1">>
FilterRows ==
    <<[id |-> <<"f","1">>, filter_type |-> <<"g","l","o","b","a","l">>,
       applies_to_tabs |-> {T_tab1}]>>
VizRows == <<[id |-> <<"v","1">>, default_for_tab |-> T_tab1]>>

\* SELECT * FROM dashboard_queries WHERE id = '{query_id}' AND is_active = true
get_query_config(cache, active, query_id, down, t) ==
    AfterGetCached(get_cached(cache, QueryKey(query_id), t), QueryKey(query_id),
                   IF query_id \in active THEN ConfigValue(QueryConfig(query_id))
                   ELSE NoValue,
                   down, t)

\* SELECT * FROM dashboard_queries WHERE is_active = true [AND category = ...]
get_all_queries(cache, active, category, down, t) ==
    LET Selected(id) ==
            /\ id \in active
            /\ (category.some /\ category.v # <<>>) => RowCategory(id) = category.v
    IN AfterGetCached(get_cached(cache, QueriesKey(category), t), QueriesKey(category),
                      ListValue([i \in DOMAIN SelectSeq(QueryRowsOrdered, Selected) |->
                                    QueryConfig(SelectSeq(QueryRowsOrdered, Selected)[i])]),
                      down, t)

\* SELECT * FROM filter_definitions WHERE is_active = true [AND filter_type =
\* ...], then the rows of other tabs are skipped
get_filter_configs(cache, filter_type, tab, down, t) ==
    LET Selected(row) ==
            /\ (filter_type.some /\ filter_type.v # <<>>) => row.filter_type = filter_type.v
            /\ (tab.some /\ tab.v # <<>>) => tab.v \in row.applies_to_tabs
    IN AfterGetCached(get_cached(cache, FiltersKey(filter_type, tab), t),
                      FiltersKey(filter_type, tab),
                      ListValue(SelectSeq(FilterRows, Selected)), down, t)

\* SELECT * FROM visualization_configs WHERE is_active = true [AND
\* default_for_tab = ...]
get_viz_configs(cache, tab, down, t) ==
    LET Selected(row) == (tab.some /\ tab.v # <<>>) => row.default_for_tab = tab.v
    IN AfterGetCached(get_cached(cache, VizKey(tab), t), VizKey(tab),
                      ListValue(SelectSeq(VizRows, Selected)), down, t)

\* ConfigService.clear_cache()
config_clear_cache == [k \in {} |-> <<>>]

\* what build_query_from_template hands back, with the cache afterwards and
\* the steps it took
BR(b, cache, trace) ==
    [sql |-> b.sql, raised |-> b.raised, reason |-> b.reason, cache |-> cache,
     trace |-> trace]

\* build_query_from_template after get_query_config has returned r
AfterGetQueryConfig(r, query_id, params) ==
    IF r.raised # "none" THEN BR(B(<<>>, r.raised, <<>>), r.cache, r.trace)
    ELSE IF ~Truthy(r.value)
    THEN BR(B(<<>>, "ValueError", S_NotFound \o query_id), r.cache, r.trace)
    ELSE BR(Substitute(r.value.rows[1].sql_template, r.value.rows[1].parameters, 1,
                       params),
            r.cache, r.trace)

build_query_from_template(cache, active, query_id, params, down, t) ==
    AfterGetQueryConfig(get_query_config(cache, active, query_id, down, t), query_id,
                        params)

----------------------------------------------------------------------------
(* user_context.DataAccessScope and PermissionsService.get_user_data_scope *)

S_STAR == <<"*">>

\* DataAccessScope(): the three sets of names; row_level_filters and
\* restricted_columns are dictionaries that nothing fills
DataAccessScope(catalogs, schemas, tables) ==
    [accessible_catalogs |-> catalogs, accessible_schemas |-> schemas,
     accessible_tables |-> tables, row_level_filters |-> {},
     restricted_columns |-> {}]

can_access_catalog(scope, catalog) ==
    catalog \in scope.accessible_catalogs \/ S_STAR \in scope.accessible_catalogs

can_access_schema(scope, catalog, schema) ==
    \/ SchemaFullName(catalog, schema) \in scope.accessible_schemas
    \/ catalog \o DOT \o S_STAR \in scope.accessible_schemas
    \/ S_STAR \o DOT \o S_STAR \in scope.accessible_schemas

can_access_table(scope, catalog, schema, table) ==
    \/ TableFullName(catalog, schema, table) \in scope.accessible_tables
    \/ catalog \o DOT \o schema \o DOT \o S_STAR \in scope.accessible_tables
    \/ catalog \o DOT \o S_STAR \o DOT \o S_STAR \in scope.accessible_tables
    \/ S_STAR \o DOT \o S_STAR \o DOT \o S_STAR \in scope.accessible_tables

\* workspace_client.schemas.list(catalog_name=...): the schemas the catalog
\* service lists under a catalog; x is listed but cannot be looked up
SchemasListed(catalog_name) ==
    IF catalog_name \in {CatC, CatD} THEN <<SchS, SchX>> ELSE <<>>

\* schemas.list raises for this catalog: the failure is met under catalog c
SchemasListRaises(down, catalog_name) ==
    "schemas.list" \in down /\ catalog_name = CatC

\* what get_user_data_scope hands back: the scope, whether an exception
\* escaped it, and the permission cache afterwards
SR(scope, raised, cache) == [scope |-> scope, raised |-> raised, cache |-> cache]

RECURSIVE ScopeSchemas(_, _, _, _, _, _, _, _)
RECURSIVE ScopeCatalogs(_, _, _, _, _, _, _)

\* a schema loop that also admits the tables of every accessible schema
AfterSchemaCheck_WithTables(r, g, u, catalog, schemas, j, down, scope) ==
    ScopeSchemas(r.cache, g, u, catalog, schemas, j + 1, down,
                 IF r.ret
                 THEN DataAccessScope(scope.accessible_catalogs,
                                      scope.accessible_schemas
                                        \cup {SchemaFullName(catalog, schemas[j])},
                                      scope.accessible_tables
                                        \cup {catalog \o DOT \o schemas[j] \o DOT \o S_STAR})
                 ELSE scope)

\* the schema loop after check_schema_access has returned r for schemas[j]
AfterSchemaCheck(r, g, u, catalog, schemas, j, down, scope) ==
    ScopeSchemas(r.cache, g, u, catalog, schemas, j + 1, down,
                 IF r.ret
                 THEN DataAccessScope(scope.accessible_catalogs,
                                      scope.accessible_schemas
                                        \cup {SchemaFullName(catalog, schemas[j])},
                                      scope.accessible_tables)
                 ELSE scope)

\* for schema in schemas[j..]: the scope and the cache when the loop ends
ScopeSchemas(cache, g, u, catalog, schemas, j, down, scope) ==
    IF j > Len(schemas) THEN SR(scope, FALSE, cache)
    ELSE AfterSchemaCheck(check_schema_access(cache, g, u, catalog, schemas[j],
                                              S_USAGE, down),
                          g, u, catalog, schemas, j, down, scope)

\* a catalog loop that gives up the whole scope when schemas.list raises
AfterCatalogSchemas_Abort(sr, listed, g, u, catalogs, i, down) ==
    IF listed THEN ScopeCatalogs(sr.cache, g, u, catalogs, i + 1, down, sr.scope)
    ELSE SR(DataAccessScope({}, {}, {}), FALSE, sr.cache)

\* the catalog loop after the schemas of catalogs[i] were gone through, or
\* after schemas.list raised and the inner handler logged it
AfterCatalogSchemas(sr, listed, g, u, catalogs, i, down) ==
    ScopeCatalogs(sr.cache, g, u, catalogs, i + 1, down, sr.scope)

\* a catalog loop that adds every listed schema of an accessible catalog
\* without checking it
AfterCatalogCheck_AllSchemas(r, g, u, catalogs, i, down, scope) ==
    IF ~r.ret THEN ScopeCatalogs(r.cache, g, u, catalogs, i + 1, down, scope)
    ELSE ScopeCatalogs(r.cache, g, u, catalogs, i + 1, down,
             DataAccessScope(scope.accessible_catalogs \cup {catalogs[i]},
                             scope.accessible_schemas
                               \cup {SchemaFullName(catalogs[i], SchemasListed(catalogs[i])[k]) :
                                        k \in 1..Len(SchemasListed(catalogs[i]))},
                             scope.accessible_tables))

\* the catalog loop after check_catalog_access has returned r for catalogs[i]
AfterCatalogCheck(r, g, u, catalogs, i, down, scope) ==
    IF ~r.ret THEN ScopeCatalogs(r.cache, g, u, catalogs, i + 1, down, scope)
    ELSE IF SchemasListRaises(down, catalogs[i])
    THEN AfterCatalogSchemas(
             SR(DataAccessScope(scope.accessible_catalogs \cup {catalogs[i]},
                                scope.accessible_schemas, scope.accessible_tables),
                FALSE, r.cache),
             FALSE, g, u, catalogs, i, down)
    ELSE AfterCatalogSchemas(
             ScopeSchemas(r.cache, g, u, catalogs[i], SchemasListed(catalogs[i]), 1, down,
                          DataAccessScope(scope.accessible_catalogs \cup {catalogs[i]},
                                          scope.accessible_schemas,
                                          scope.accessible_tables)),
             TRUE, g, u, catalogs, i, down)

\* for catalog in catalogs[i..]
ScopeCatalogs(cache, g, u, catalogs, i, down, scope) ==
    IF i > Len(catalogs) THEN SR(scope, FALSE, cache)
    ELSE AfterCatalogCheck(check_catalog_access(cache, g, u, catalogs[i], S_USAGE, down),
                           g, u, catalogs, i, down, scope)

\* get_user_data_scope(user_context), with catalogs what catalogs.list()
\* returns; every exception is caught and logged
get_user_data_scope(cache, g, u, catalogs, down) ==
    IF u.is_admin
    THEN SR(DataAccessScope({S_STAR}, {S_STAR \o DOT \o S_STAR},
                            {S_STAR \o DOT \o S_STAR \o DOT \o S_STAR}),
            FALSE, cache)
    ELSE IF ~u.has_client THEN SR(DataAccessScope({}, {}, {}), FALSE, cache)
    ELSE IF "catalogs.list" \in down THEN SR(DataAccessScope({}, {}, {}), FALSE, cache)
    ELSE ScopeCatalogs(cache, g, u, catalogs, 1, down, DataAccessScope({}, {}, {}))

----------------------------------------------------------------------------
(* State *)

NoRequest == [kind |-> "none", token |-> <<>>, env |-> "", stage |-> "none",
              answer |-> FALSE, began |-> 0, trace |-> <<>>]

\* the observation of one handler invocation: its arguments, the time it was
\* called at, what it returned or raised, and the steps it took
Obs(op, u, name, priv, filters, env, at, ret, out, raised, reason, trace) ==
    [op |-> op, user |-> u, name |-> name, priv |-> priv, filters |-> filters,
     env |-> env, at |-> at, ret |-> ret, out |-> out, raised |-> raised,
     reason |-> reason, trace |-> trace]

Idle == Obs("idle", NoUser, <<>>, <<>>, {}, "", 0, FALSE, <<>>, "none", <<>>, <<>>)

\* a permission check's observation
CheckObs(op, u, name, priv, r) ==
    Obs(op, u, name, priv, {}, "", 0, r.ret, <<>>,
        IF r.raised THEN "Exception" ELSE "none", <<>>, r.trace)

\* an authentication handler's observation
AuthObs(op, token, env, at, u, raised, trace) ==
    Obs(op, u, token, <<>>, {}, env, at, raised = "none", <<>>, raised, <<>>, trace)

\* a request that has not started on the cache of this kind: its position, the
\* key it works on, the value it read or looked up, the entry it wrote and
\* the place of that write among the writes, what it returned or raised,
\* whether it missed while another request had missed the same key, and the
\* entries under other keys when it started
NotStarted(kind) ==
    [pc |-> "start", cache |-> kind, key |-> <<>>, value |-> <<>>, wrote |-> <<>>,
     order |-> 0, ret |-> <<>>, raised |-> "none", overlap |-> FALSE, before |-> {}]
RequestIds == {1, 2}

\* PermissionsService.__init__: an empty permission cache; no request runs
InitPerm ==
    /\ permission_cache = [e \in {} |-> EmptyMap]
    /\ requests = [i \in RequestIds |-> NotStarted("")]

\* auth_middleware at import: an empty session cache
InitAuth ==
    /\ session_cache = [t \in {} |-> <<NoUser, 0>>]
    /\ now = 0
    /\ revoked = [t \in {} |-> 0]
    /\ inflight = NoRequest

\* ConfigService.__init__: an empty configuration cache; the metadata store
\* holds every query row as active
InitConfigFull ==
    /\ config_cache = [k \in {} |-> <<>>]
    /\ meta_active = QueryRows

\* the permissions service over a privilege store holding any grants
Init ==
    /\ InitPerm
    /\ InitAuth
    /\ InitConfigFull
    /\ grants \in SUBSET GrantUniverse
    /\ last = Idle

\* the authentication middleware alone
InitAuthOnly ==
    /\ InitPerm
    /\ InitAuth
    /\ InitConfigFull
    /\ grants = {}
    /\ last = Idle

----------------------------------------------------------------------------
(* Operations of the permissions service *)

CheckedTables == {TabT}

CheckCatalog ==
    \E u \in PermUsers, p \in Privileges, down \in FailureModes :
        /\ last.op = "idle"
        /\ LET r == check_catalog_access(permission_cache, grants, u, CatC, p, down)
           IN /\ permission_cache' = r.cache
              /\ last' = CheckObs("check_catalog_access", u, CatC, p, r)
        /\ UNCHANGED <<raceVars, cfgVars, grants, authVars>>

\* store failures that can meet a catalog check
CatalogFailureModes == {{}, {"catalogs.get"}, {"grants.CATALOG"}}

\* two calls of check_catalog_access in a row with the same arguments; the
\* store may fail during either of them
CheckCatalogTwice ==
    \E u \in PermUsers, p \in Privileges, down1 \in CatalogFailureModes, down2 \in CatalogFailureModes :
        /\ last.op = "idle"
        /\ LET r1 == check_catalog_access(permission_cache, grants, u, CatC, p, down1)
               r2 == check_catalog_access(r1.cache, grants, u, CatC, p, down2)
           IN /\ permission_cache' = r2.cache
              /\ last' = Obs("check_catalog_access twice", u, CatC, p, {}, "", 0,
                             r2.ret, <<>>, "none", <<>>,
                             r1.trace \o <<Ev("check_catalog_access", CatC, r1.ret)>>
                                 \o r2.trace
                                 \o <<Ev("check_catalog_access", CatC, r2.ret)>>)
        /\ UNCHANGED <<raceVars, cfgVars, grants, authVars>>

CheckSchema ==
    \E u \in PermUsers, p \in Privileges, down \in FailureModes :
        /\ last.op = "idle"
        /\ LET r == check_schema_access(permission_cache, grants, u, CatC, SchS, p, down)
           IN /\ permission_cache' = r.cache
              /\ last' = CheckObs("check_schema_access", u,
                                  SchemaFullName(CatC, SchS), p, r)
        /\ UNCHANGED <<raceVars, cfgVars, grants, authVars>>

CheckTable ==
    \E u \in PermUsers, t \in CheckedTables, p \in Privileges, down \in FailureModes :
        /\ last.op = "idle"
        /\ LET r == check_table_access(permission_cache, grants, u, CatC, SchS, t, p, down)
           IN /\ permission_cache' = r.cache
              /\ last' = CheckObs("check_table_access", u,
                                  TableFullName(CatC, SchS, t), p, r)
        /\ UNCHANGED <<raceVars, cfgVars, grants, authVars>>

ClearCache ==
    \E e \in {<<>>} \cup {u.email : u \in PermUsers} :
        /\ last.op = "idle"
        /\ permission_cache' = clear_cache(permission_cache, e)
        /\ last' = Obs("clear_cache", NoUser, e, <<>>, {}, "", 0, FALSE, <<>>, "none",
                       <<>>, <<>>)
        /\ UNCHANGED <<raceVars, cfgVars, grants, authVars>>

ValidateQuery ==
    \E u \in PermUsers, sql \in Statements, down \in FailureModes :
        /\ last.op = "idle"
        /\ LET v == validate_query_permissions(permission_cache, grants, sql, u, down)
           IN /\ permission_cache' = v.cache
              /\ last' = Obs("validate_query_permissions", u, sql, <<>>, {}, "", 0,
                             v.ok, <<>>, "none", v.reason, v.trace)
        /\ UNCHANGED <<raceVars, cfgVars, grants, authVars>>

InjectRls ==
    \E u \in PermUsers, sql \in Statements, f \in TableFilterArgs :
        /\ last.op = "idle"
        /\ last' = Obs("inject_row_level_security", u, sql, <<>>, f, "", 0, FALSE,
                       inject_row_level_security(sql, u, f), "none", <<>>, <<>>)
        /\ UNCHANGED <<raceVars, cfgVars, permVars, authVars>>

CheckQuery ==
    \E u \in PermUsers, sql \in Statements, down \in FailureModes :
        /\ last.op = "idle"
        /\ LET r == check_query_permissions(permission_cache, grants, sql, u, down)
           IN /\ permission_cache' = r.cache
              /\ last' = Obs("check_query_permissions", u, sql, <<>>, {}, "", 0,
                             r.raised = "none", r.sql, r.raised, r.reason, r.trace)
        /\ UNCHANGED <<raceVars, cfgVars, grants, authVars>>

\* the privilege store is changed from outside: one grant given or revoked
GrantChange ==
    \E g \in GrantUniverse :
        /\ last.op = "idle"
        /\ grants' = IF g \in grants THEN grants \ {g} ELSE grants \cup {g}
        /\ UNCHANGED <<raceVars, cfgVars, permission_cache, last, authVars>>

\* one minute passes
Tick ==
    /\ last.op = "idle"
    /\ now < MaxTime
    /\ now' = now + 1
    /\ UNCHANGED <<raceVars, cfgVars, permVars, last, session_cache, revoked, inflight>>

\* the caller has taken the result of the last invocation
Return ==
    /\ last.op # "idle"
    /\ last' = Idle
    /\ UNCHANGED <<raceVars, cfgVars, permVars, authVars>>

\* the permission checks, called directly
Next ==
    \/ CheckCatalog
    \/ CheckCatalogTwice
    \/ CheckSchema
    \/ CheckTable
    \/ ClearCache
    \/ InjectRls
    \/ GrantChange
    \/ Tick
    \/ Return

Spec == Init /\ [][Next]_vars

\* the query handlers, which call the permission checks
NextQuery ==
    \/ ValidateQuery
    \/ CheckQuery
    \/ InjectRls
    \/ ClearCache
    \/ GrantChange
    \/ Return

SpecQuery == Init /\ [][NextQuery]_vars

----------------------------------------------------------------------------
(* Operations of the authentication middleware. The identity lookup is a    *)
(* blocking call to an external service: the handler is suspended in it     *)
(* while time passes and the provider's state changes.                      *)

\* either dependency called without credentials
AuthNoCredential ==
    \E op \in {"get_user_context", "get_user_context_cached"}, env \in DevModeValues :
        /\ last.op = "idle"
        /\ inflight = NoRequest
        /\ LET r == no_credentials(env, now)
           IN last' = AuthObs(op, NoCredential, env, now, r.user, r.raised, <<>>)
        /\ UNCHANGED <<raceVars, cfgVars, permVars, authVars>>

\* get_user_context_cached with a token, up to the identity lookup
AuthCachedBegin ==
    \E token \in Tokens, env \in DevModeValues :
        /\ last.op = "idle"
        /\ inflight = NoRequest
        /\ LET c == get_cached_session(session_cache, token, now)
               tr == <<Ev("session.read", token, c.hit)>>
           IN /\ session_cache' = c.cache
              /\ IF c.hit
                 THEN /\ last' = AuthObs("get_user_context_cached", token, env, now,
                                         c.user, "none", tr)
                      /\ inflight' = inflight
                 ELSE /\ inflight' = [kind |-> "get_user_context_cached",
                                      token |-> token, env |-> env,
                                      stage |-> "lookup",
                                      answer |-> FALSE, began |-> now, trace |-> tr]
                      /\ last' = last
        /\ UNCHANGED <<raceVars, cfgVars, permVars, now, revoked>>

\* get_user_context with a token, up to the identity lookup
AuthPlainBegin ==
    \E token \in Tokens, env \in DevModeValues :
        /\ last.op = "idle"
        /\ inflight = NoRequest
        /\ inflight' = [kind |-> "get_user_context", token |-> token,
                        env |-> env, stage |-> "lookup", answer |-> FALSE, began |-> now,
                        trace |-> <<>>]
        /\ UNCHANGED <<raceVars, cfgVars, permVars, last, session_cache, now, revoked>>

\* the identity provider decides the lookup in flight: it accepts the token
\* unless it has revoked it or the call fails for another reason
IdentityAnswer ==
    \E outage \in BOOLEAN :
        /\ inflight.stage = "lookup"
        /\ inflight' = [inflight EXCEPT
                           !.stage = "answered",
                           !.answer = (inflight.token \notin DOMAIN revoked) /\ ~outage]
        /\ UNCHANGED <<raceVars, cfgVars, permVars, last, session_cache, now, revoked>>

\* the lookup returns to the handler, which runs to its end
AuthComplete ==
    /\ inflight.stage = "answered"
    /\ LET token == inflight.token
           r == lookup_outcome(token, inflight.answer, inflight.env, now)
           tr == inflight.trace \o <<Ev("identity.lookup", token, inflight.answer)>>
       IN IF r.raised # "none"
          THEN /\ last' = AuthObs(inflight.kind, token, inflight.env, inflight.began,
                                  NoUser, r.raised, tr)
               /\ session_cache' = session_cache
          ELSE IF inflight.kind = "get_user_context_cached"
               THEN /\ session_cache' = cache_user_session(session_cache, token, r.user, now)
                    /\ last' = AuthObs(inflight.kind, token, inflight.env,
                                       inflight.began, r.user, "none",
                                       tr \o <<Ev("session.write", token, TRUE)>>)
               ELSE /\ session_cache' = session_cache
                    /\ last' = IF is_session_valid(r.user, now, SessionMaxAgeMinutes)
                               THEN AuthObs(inflight.kind, token, inflight.env,
                                            inflight.began, r.user, "none", tr)
                               ELSE AuthObs(inflight.kind, token, inflight.env,
                                            inflight.began, NoUser,
                                            "AuthenticationError", tr)
    /\ inflight' = NoRequest
    /\ UNCHANGED <<raceVars, cfgVars, permVars, now, revoked>>

\* the identity provider revokes a token: it rejects it from now on
Revoke ==
    \E token \in Revocable \ DOMAIN revoked :
        /\ last.op = "idle"
        /\ revoked' = [k \in DOMAIN revoked \cup {token} |->
                          IF k = token THEN now ELSE revoked[k]]
        /\ UNCHANGED <<raceVars, cfgVars, permVars, last, session_cache, now, inflight>>

\* max_age_minutes arguments: a short window and the default
MaxAges == {2, SessionMaxAgeMinutes}

\* a caller asks a cached context whether its session is still valid
IsSessionValid ==
    \E token \in DOMAIN session_cache, max_age_minutes \in MaxAges :
        /\ last.op = "idle"
        /\ inflight = NoRequest
        /\ last' = Obs("is_session_valid", session_cache[token][1], token, <<>>, {}, "",
                       now,
                       is_session_valid(session_cache[token][1], now, max_age_minutes),
                       max_age_minutes, "none", <<>>, <<>>)
        /\ UNCHANGED <<raceVars, cfgVars, permVars, authVars>>

NextAuth ==
    \/ IsSessionValid
    \/ AuthNoCredential
    \/ AuthCachedBegin
    \/ AuthPlainBegin
    \/ IdentityAnswer
    \/ AuthComplete
    \/ Tick
    \/ Revoke
    \/ Return

SpecAuth == InitAuthOnly /\ [][NextAuth]_vars

----------------------------------------------------------------------------
(* Operations of the configuration service *)

\* a configuration service whose metadata store holds the row q1, active or not
InitConfigOnly ==
    /\ InitPerm
    /\ InitAuth
    /\ config_cache = [k \in {} |-> <<>>]
    /\ meta_active \in SUBSET {Id_q1}
    /\ grants = {}
    /\ last = Idle

\* a configuration service whose metadata store holds every row as active
InitTemplates ==
    /\ InitPerm
    /\ InitAuth
    /\ InitConfigFull
    /\ grants = {}
    /\ last = Idle

\* a read-through method's observation
ConfigObs(op, name, r) ==
    Obs(op, NoUser, name, <<>>, {}, "", now, r.raised = "none", r.value, r.raised,
        <<>>, r.trace)

LookedUpIds == {Id_q1, Id_unknown}
Categories == {None}
FilterArgs == {<<None, None>>}
TabArgs == {None}
EmptyParams == [n \in {} |-> <<>>]
FewParamMaps == {EmptyParams, [n \in {N_region} |-> V_west]}

GetQueryConfig ==
    \E query_id \in LookedUpIds, down \in BOOLEAN :
        /\ last.op = "idle"
        /\ LET r == get_query_config(config_cache, meta_active, query_id, down, now)
           IN /\ config_cache' = r.cache
              /\ last' = ConfigObs("get_query_config", QueryKey(query_id), r)
        /\ UNCHANGED <<raceVars, permVars, authVars, meta_active>>

GetAllQueries ==
    \E category \in Categories, down \in BOOLEAN :
        /\ last.op = "idle"
        /\ LET r == get_all_queries(config_cache, meta_active, category, down, now)
           IN /\ config_cache' = r.cache
              /\ last' = ConfigObs("get_all_queries", QueriesKey(category), r)
        /\ UNCHANGED <<raceVars, permVars, authVars, meta_active>>

GetFilterConfigs ==
    \E args \in FilterArgs, down \in BOOLEAN :
        /\ last.op = "idle"
        /\ LET r == get_filter_configs(config_cache, args[1], args[2], down, now)
           IN /\ config_cache' = r.cache
              /\ last' = ConfigObs("get_filter_configs", FiltersKey(args[1], args[2]), r)
        /\ UNCHANGED <<raceVars, permVars, authVars, meta_active>>

GetVizConfigs ==
    \E tab \in TabArgs, down \in BOOLEAN :
        /\ last.op = "idle"
        /\ LET r == get_viz_configs(config_cache, tab, down, now)
           IN /\ config_cache' = r.cache
              /\ last' = ConfigObs("get_viz_configs", VizKey(tab), r)
        /\ UNCHANGED <<raceVars, permVars, authVars, meta_active>>

\* build_query_from_template called with one of these ids and params
BuildWith(ids, maps, downs) ==
    \E query_id \in ids, params \in maps, down \in downs :
        /\ last.op = "idle"
        /\ LET r == build_query_from_template(config_cache, meta_active, query_id,
                                              params, down, now)
           IN /\ config_cache' = r.cache
              /\ last' = Obs("build_query_from_template", NoUser, query_id, <<>>,
                             params, "", now, r.raised = "none", r.sql, r.raised,
                             r.reason, r.trace)
        /\ UNCHANGED <<raceVars, permVars, authVars, meta_active>>

BuildQuery == BuildWith(LookedUpIds, FewParamMaps, BOOLEAN)

RenderQuery == BuildWith(QueryRows \cup {Id_unknown}, ParamMaps, {FALSE})

ConfigClearCache ==
    /\ last.op = "idle"
    /\ config_cache' = config_clear_cache
    /\ last' = Obs("config.clear_cache", NoUser, <<>>, <<>>, {}, "", now, FALSE, <<>>,
                   "none", <<>>, <<>>)
    /\ UNCHANGED <<raceVars, permVars, authVars, meta_active>>

\* the metadata store is changed from outside: the row q1 is deactivated or
\* activated again
MetaChange ==
    /\ last.op = "idle"
    /\ meta_active' = IF Id_q1 \in meta_active THEN meta_active \ {Id_q1}
                      ELSE meta_active \cup {Id_q1}
    /\ UNCHANGED <<raceVars, permVars, authVars, last, config_cache>>

\* the read-through cache over a changing metadata store
NextConfig ==
    \/ GetQueryConfig
    \/ GetAllQueries
    \/ GetFilterConfigs
    \/ GetVizConfigs
    \/ BuildQuery
    \/ ConfigClearCache
    \/ MetaChange
    \/ Tick
    \/ Return

SpecConfig == InitConfigOnly /\ [][NextConfig]_vars

\* rendering of every template with every params argument
NextTemplates ==
    \/ RenderQuery
    \/ ConfigClearCache
    \/ Return

SpecTemplates == InitTemplates /\ [][NextTemplates]_vars

----------------------------------------------------------------------------
(* The list methods of the configuration service called with every kind of  *)
(* filter argument, over a metadata store that does not change              *)

\* an argument given as a string
S_m == <<"m">>
S_global == <<"g","l","o","b","a","l">>

\* category arguments: None, the empty string, the category of the rows, and
\* the string "all"
WideCategories == {None, Some(<<>>), Some(S_m), Some(S_all)}

\* filter_type and tab arguments
WideFilterArgs == {None, Some(S_global), Some(S_all)} \X {None, Some(T_tab1), Some(S_all)}

\* tab arguments
WideTabArgs == {None, Some(T_tab1), Some(S_all)}

\* a list method's observation: its arguments next to what it returned
ListObs(op, name, args, r) ==
    Obs(op, NoUser, name, <<>>, args, "", now, r.raised = "none", r.value, r.raised,
        <<>>, r.trace)

ListQueries ==
    \E category \in WideCategories :
        /\ last.op = "idle"
        /\ LET r == get_all_queries(config_cache, meta_active, category, FALSE, now)
           IN /\ config_cache' = r.cache
              /\ last' = ListObs("get_all_queries", QueriesKey(category), <<category>>, r)
        /\ UNCHANGED <<raceVars, permVars, authVars, meta_active>>

ListFilters ==
    \E args \in WideFilterArgs :
        /\ last.op = "idle"
        /\ LET r == get_filter_configs(config_cache, args[1], args[2], FALSE, now)
           IN /\ config_cache' = r.cache
              /\ last' = ListObs("get_filter_configs", FiltersKey(args[1], args[2]), args, r)
        /\ UNCHANGED <<raceVars, permVars, authVars, meta_active>>

ListViz ==
    \E tab \in WideTabArgs :
        /\ last.op = "idle"
        /\ LET r == get_viz_configs(config_cache, tab, FALSE, now)
           IN /\ config_cache' = r.cache
              /\ last' = ListObs("get_viz_configs", VizKey(tab), <<tab>>, r)
        /\ UNCHANGED <<raceVars, permVars, authVars, meta_active>>

NextKeys ==
    \/ ListQueries
    \/ ListFilters
    \/ ListViz
    \/ ConfigClearCache
    \/ Return

SpecKeys == InitTemplates /\ [][NextKeys]_vars

----------------------------------------------------------------------------
(* Operations on the data access scope *)

\* entries a scope's accessible_tables may hold
TableEntries ==
    {TableFullName(CatC, SchS, TabT),
     CatC \o DOT \o SchS \o DOT \o S_STAR,
     CatC \o DOT \o S_STAR,
     S_STAR,
     CatC \o DOT \o S_STAR \o DOT \o S_STAR,
     S_STAR \o DOT \o S_STAR \o DOT \o S_STAR}

CanAccessTable ==
    \E tables \in SUBSET TableEntries, c \in {CatC, CatD}, s \in {SchS, SchX}, t \in {TabT, TabU} :
        /\ last.op = "idle"
        /\ last' = Obs("can_access_table", NoUser, <<c, s, t>>, <<>>, {}, "", 0,
                       can_access_table(DataAccessScope({}, {}, tables), c, s, t),
                       DataAccessScope({}, {}, tables), "none", <<>>, <<>>)
        /\ UNCHANGED <<raceVars, cfgVars, permVars, authVars>>

\* DataAccessScope.can_access_table applied to scopes of every shape
NextMatch == CanAccessTable \/ Return

SpecMatch == InitAuthOnly /\ [][NextMatch]_vars

\* grants on the two catalogs and their schemas
ScopeGrants ==
    {<<"CATALOG", CatC, EmailA, S_USAGE>>,
     <<"CATALOG", CatD, EmailA, S_USAGE>>,
     <<"SCHEMA", SchemaFullName(CatC, SchS), EmailA, S_USAGE>>,
     <<"SCHEMA", SchemaFullName(CatD, SchS), EmailA, S_USAGE>>}

\* what catalogs.list() returns; hive_metastore is listed but cannot be
\* looked up
CatalogListings ==
    {<<CatC, CatD>>, <<CatD, CatC>>, <<CatC>>, <<HiveMetastore, CatC>>}

\* external calls that may raise while a scope is built
ScopeFailureModes ==
    {{}, {"catalogs.list"}, {"schemas.list"}, {"catalogs.get"}, {"grants.CATALOG"},
     {"grants.SCHEMA"}}

InitScope ==
    /\ InitPerm
    /\ InitAuth
    /\ InitConfigFull
    /\ grants \in SUBSET ScopeGrants
    /\ last = Idle

GetUserDataScope ==
    \E u \in PermUsers, catalogs \in CatalogListings, down \in ScopeFailureModes :
        /\ last.op = "idle"
        /\ LET r == get_user_data_scope(permission_cache, grants, u, catalogs, down)
           IN /\ permission_cache' = r.cache
              /\ last' = Obs("get_user_data_scope", u, catalogs, <<>>, down, "", 0,
                             ~r.raised, r.scope,
                             IF r.raised THEN "Exception" ELSE "none", <<>>, <<>>)
        /\ UNCHANGED <<raceVars, cfgVars, grants, authVars>>

\* the privilege store is changed from outside: a grant on a catalog or a
\* schema given or revoked
ScopeGrantChange ==
    \E g \in ScopeGrants :
        /\ last.op = "idle"
        /\ grants' = IF g \in grants THEN grants \ {g} ELSE grants \cup {g}
        /\ UNCHANGED <<raceVars, cfgVars, permission_cache, last, authVars>>

NextScope ==
    \/ GetUserDataScope
    \/ ScopeGrantChange
    \/ ClearCache
    \/ Return

SpecScope == InitScope /\ [][NextScope]_vars

----------------------------------------------------------------------------
(* Requests running at the same time on one shared cache. A step is one     *)
(* dictionary operation: the membership test, the read, the delete and the  *)
(* write of a handler are separate steps, and the steps of two requests     *)
(* interleave in any order. A cooperative scheduler that switches requests  *)
(* only in the awaited identity lookup produces a subset of these runs.     *)

CacheKinds == {"session", "config", "permission"}

\* the keys the requests work on: two tokens, two list methods, two
\* privileges on the catalog c
RaceKeys(kind) ==
    CASE kind = "session" -> {Tok1, Tok2}
      [] kind = "config" -> {FiltersKey(None, None), VizKey(None)}
      [] OTHER -> {cache_key(EmailA, CatC, S_USAGE), cache_key(EmailA, CatC, S_SELECT)}

\* the entries of a cache as a set of <<key, entry>>; the permission cache
\* is flattened over its users
Entries(kind) ==
    CASE kind = "session" -> {<<k, session_cache[k]>> : k \in DOMAIN session_cache}
      [] kind = "config" -> {<<k, config_cache[k]>> : k \in DOMAIN config_cache}
      [] OTHER -> UNION {{<<k, permission_cache[e][k]>> : k \in DOMAIN permission_cache[e]}
                         : e \in DOMAIN permission_cache}

HasEntry(kind, key) == \E x \in Entries(kind) : x[1] = key
EntryOf(kind, key) == (CHOOSE x \in Entries(kind) : x[1] = key)[2]
OtherEntries(kind, key) == {x \in Entries(kind) : x[1] # key}

\* timedelta(minutes=...) of the two caches that expire
TtlOf(kind) == IF kind = "session" THEN cache_ttl_minutes ELSE config_cache_ttl

\* what the collaborator gives for a key: the identity behind a token, the
\* rows of a list method, the privilege held on the catalog
LookedUp(kind, key) ==
    CASE kind = "session" -> extract_user_from_token(key, now)
      [] kind = "config" ->
           IF key = VizKey(None)
           THEN get_viz_configs(config_clear_cache, None, FALSE, now).value
           ELSE get_filter_configs(config_clear_cache, None, None, FALSE, now).value
      [] OTHER ->
           HasPrivilege(grants, "CATALOG", CatC, EmailA,
                        IF key = cache_key(EmailA, CatC, S_USAGE) THEN S_USAGE
                        ELSE S_SELECT)

\* the other request is between its miss and its write on the same key
InMissWindow(j, kind, key) ==
    /\ requests[j].cache = kind
    /\ requests[j].key = key
    /\ requests[j].pc \in {"lookup", "write", "ensure", "ensure_set"}

\* request i has missed: it goes on to the lookup, and when another request
\* has missed the same key and not yet written, both are marked
Missed(i) ==
    [j \in RequestIds |->
        IF j = i
        THEN [requests[i] EXCEPT
                 !.pc = "lookup",
                 !.overlap = \E o \in RequestIds \ {i} :
                                 InMissWindow(o, requests[i].cache, requests[i].key)]
        ELSE IF InMissWindow(j, requests[i].cache, requests[i].key)
             THEN [requests[j] EXCEPT !.overlap = TRUE]
             ELSE requests[j]]

\* the place of the next write among the writes of the running requests
NextOrder == 1 + Cardinality({j \in RequestIds : requests[j].order > 0})

RaceFrame == UNCHANGED <<grants, last, now, revoked, inflight, meta_active>>

\* a request arrives: get_user_context_cached with a token, a list method of
\* the configuration service, or check_catalog_access for a non-admin user
RaceStart(i) ==
    \E kind \in CacheKinds :
        \E key \in RaceKeys(kind) :
            /\ last.op = "idle"
            /\ requests[i].pc = "start"
            /\ \A j \in RequestIds : requests[j].cache \in {"", kind}
            /\ requests' = [requests EXCEPT
                               ![i] = [NotStarted(kind) EXCEPT
                                          !.pc = "test", !.key = key,
                                          !.before = OtherEntries(kind, key)]]
            /\ UNCHANGED <<permission_cache, session_cache, config_cache>>
            /\ RaceFrame

\* "if token not in _session_cache", "if key in self._cache",
\* "if cache_key in self._permission_cache.get(email, {})"
RaceTest(i) ==
    /\ requests[i].pc = "test"
    /\ requests' = IF HasEntry(requests[i].cache, requests[i].key)
                   THEN [requests EXCEPT ![i].pc = "read"]
                   ELSE Missed(i)
    /\ UNCHANGED <<permission_cache, session_cache, config_cache>>
    /\ RaceFrame

\* "user, cached_at = _session_cache[token]", "value, cached_at =
\* self._cache[key]", "return self._permission_cache[email][cache_key]":
\* KeyError when the entry is gone; the permission cache has no age
RaceRead(i) ==
    /\ requests[i].pc = "read"
    /\ requests' =
         IF ~HasEntry(requests[i].cache, requests[i].key)
         THEN [requests EXCEPT ![i].pc = "done", ![i].raised = "KeyError"]
         ELSE IF requests[i].cache = "permission"
         THEN [requests EXCEPT
                  ![i].pc = "done",
                  ![i].value = EntryOf("permission", requests[i].key),
                  ![i].ret = EntryOf("permission", requests[i].key)]
         ELSE [requests EXCEPT
                  ![i].pc = "age",
                  ![i].value = EntryOf(requests[i].cache, requests[i].key)]
    /\ UNCHANGED <<permission_cache, session_cache, config_cache>>
    /\ RaceFrame

\* "if age < ttl: return", with the entry that was read
RaceAge(i) ==
    /\ requests[i].pc = "age"
    /\ requests' =
         IF now - requests[i].value[2] < TtlOf(requests[i].cache)
         THEN [requests EXCEPT ![i].pc = "done",
                               ![i].value = requests[i].value[1],
                               ![i].ret = requests[i].value[1]]
         ELSE [requests EXCEPT ![i].pc = "evict"]
    /\ UNCHANGED <<permission_cache, session_cache, config_cache>>
    /\ RaceFrame

\* "del _session_cache[token]", "del self._cache[key]": KeyError when the
\* entry is gone
RaceEvict(i) ==
    /\ requests[i].pc = "evict"
    /\ IF ~HasEntry(requests[i].cache, requests[i].key)
       THEN /\ requests' = [requests EXCEPT ![i].pc = "done", ![i].raised = "KeyError"]
            /\ UNCHANGED <<session_cache, config_cache>>
       ELSE /\ requests' = Missed(i)
            /\ IF requests[i].cache = "session"
               THEN /\ session_cache' = [k \in DOMAIN session_cache \ {requests[i].key} |->
                                            session_cache[k]]
                    /\ UNCHANGED config_cache
               ELSE /\ config_cache' = [k \in DOMAIN config_cache \ {requests[i].key} |->
                                           config_cache[k]]
                    /\ UNCHANGED session_cache
    /\ UNCHANGED permission_cache
    /\ RaceFrame

\* the identity lookup, the metadata query, the privilege lookup
RaceLookup(i) ==
    /\ requests[i].pc = "lookup"
    /\ requests' = [requests EXCEPT
                       ![i].pc = IF requests[i].cache = "permission" THEN "ensure"
                                 ELSE "write",
                       ![i].value = LookedUp(requests[i].cache, requests[i].key)]
    /\ UNCHANGED <<permission_cache, session_cache, config_cache>>
    /\ RaceFrame

\* "if user_context.email not in self._permission_cache:"
RaceEnsureTest(i) ==
    /\ requests[i].pc = "ensure"
    /\ requests' = [requests EXCEPT
                       ![i].pc = IF EmailA \in DOMAIN permission_cache THEN "write"
                                 ELSE "ensure_set"]
    /\ UNCHANGED <<permission_cache, session_cache, config_cache>>
    /\ RaceFrame

\* "self._permission_cache[user_context.email] = {}"
RaceEnsureSet(i) ==
    /\ requests[i].pc = "ensure_set"
    /\ requests' = [requests EXCEPT ![i].pc = "write"]
    /\ permission_cache' = [e \in DOMAIN permission_cache \cup {EmailA} |->
                               IF e = EmailA THEN EmptyMap ELSE permission_cache[e]]
    /\ UNCHANGED <<session_cache, config_cache>>
    /\ RaceFrame

\* cache_user_session, _set_cached, and "self._permission_cache[email][key] =
\* has_access", whose KeyError is caught by the handler of the check, which
\* returns False
RaceWrite(i) ==
    /\ requests[i].pc = "write"
    /\ CASE requests[i].cache = "session" ->
              /\ session_cache' = cache_user_session(session_cache, requests[i].key,
                                                      requests[i].value, now)
              /\ requests' = [requests EXCEPT
                                 ![i].pc = "done", ![i].ret = requests[i].value,
                                 ![i].order = NextOrder,
                                 ![i].wrote = <<requests[i].value, now>>]
              /\ UNCHANGED <<permission_cache, config_cache>>
         [] requests[i].cache = "config" ->
              /\ config_cache' = set_cached(config_cache, requests[i].key,
                                             requests[i].value, now)
              /\ requests' = [requests EXCEPT
                                 ![i].pc = "done", ![i].ret = requests[i].value,
                                 ![i].order = NextOrder,
                                 ![i].wrote = <<requests[i].value, now>>]
              /\ UNCHANGED <<permission_cache, session_cache>>
         [] OTHER ->
              /\ IF EmailA \in DOMAIN permission_cache
                 THEN /\ permission_cache' = CacheStore(permission_cache, EmailA,
                                                        requests[i].key, requests[i].value)
                      /\ requests' = [requests EXCEPT
                                         ![i].pc = "done", ![i].ret = requests[i].value,
                                         ![i].order = NextOrder,
                                         ![i].wrote = requests[i].value]
                 ELSE /\ permission_cache' = permission_cache
                      /\ requests' = [requests EXCEPT ![i].pc = "done", ![i].ret = FALSE]
              /\ UNCHANGED <<session_cache, config_cache>>
    /\ RaceFrame

\* a request runs clear_cache on the permission cache (for one user or for
\* all) or on the configuration cache
RaceClear(i) ==
    \E kind \in {"config", "permission"}, e \in {<<>>, EmailA} :
        /\ last.op = "idle"
        /\ requests[i].pc = "start"
        /\ \A j \in RequestIds : requests[j].cache \in {"", kind}
        /\ requests' = [requests EXCEPT ![i] = [NotStarted(kind) EXCEPT !.pc = "done"]]
        /\ IF kind = "config"
           THEN /\ config_cache' = config_clear_cache
                /\ UNCHANGED permission_cache
           ELSE /\ permission_cache' = clear_cache(permission_cache, e)
                /\ UNCHANGED config_cache
        /\ UNCHANGED session_cache
        /\ RaceFrame

\* the requests that ran have all ended and their callers have their results
RaceReturn ==
    /\ \E i \in RequestIds : requests[i].pc = "done"
    /\ \A i \in RequestIds : requests[i].pc \in {"start", "done"}
    /\ requests' = [i \in RequestIds |-> NotStarted(requests[i].cache)]
    /\ UNCHANGED <<permission_cache, session_cache, config_cache>>
    /\ RaceFrame

\* the privilege store holds USAGE on the catalog c for the user
InitRace ==
    /\ InitPerm
    /\ InitAuth
    /\ InitConfigFull
    /\ grants = {<<"CATALOG", CatC, EmailA, S_USAGE>>}
    /\ last = Idle

NextRace ==
    \/ \E i \in RequestIds :
          \/ RaceStart(i)
          \/ RaceTest(i)
          \/ RaceRead(i)
          \/ RaceAge(i)
          \/ RaceEvict(i)
          \/ RaceLookup(i)
          \/ RaceEnsureTest(i)
          \/ RaceEnsureSet(i)
          \/ RaceWrite(i)
          \/ RaceClear(i)
    \/ RaceReturn
    \/ Tick

SpecRace == InitRace /\ [][NextRace]_vars

----------------------------------------------------------------------------
(* Reading an observation *)

CheckOps == {"check_catalog_access", "check_schema_access", "check_table_access"}
AuthOps == {"get_user_context", "get_user_context_cached"}

\* some step of this kind with this outcome was taken
HasEvent(trace, kind, val) ==
    \E i \in DOMAIN trace : trace[i].kind = kind /\ trace[i].val = val

\* some step of this kind was taken
HasKind(trace, kind) == \E i \in DOMAIN trace : trace[i].kind = kind

IsTableCheck(e) == e.kind = "check_table_access"
IsAudit(e) == e.kind = "audit"
IsValidation(e) == e.kind = "validate_query_permissions"

\* an external call raised during the invocation
StoreRaised(trace) == \E op \in StoreOps : HasEvent(trace, op, FALSE)

----------------------------------------------------------------------------
(* Claims about the permission checks *)

C2_AdminBypass ==
    [][(last.op = "idle" /\ last'.op # "idle" /\ last'.user.is_admin) =>
          /\ last'.op \in CheckOps =>
                /\ last'.ret
                /\ last'.raised = "none"
                /\ last'.trace = <<>>
                /\ permission_cache' = permission_cache
          /\ last'.op = "inject_row_level_security" => last'.out = last'.name]_vars

\* an admin is granted a table although the store holds no grant at all
C2_Witness ==
    /\ last.op = "check_table_access"
    /\ last.user.is_admin
    /\ last.ret
    /\ grants = {}

\* the invocation read the cache entry of the securable it was asked about
ChildCacheRead ==
    \E i \in DOMAIN last.trace :
        /\ last.trace[i].kind = "cache.read"
        /\ last.trace[i].name = cache_key(last.user.email, last.name, last.priv)

\* C3: for a non-admin user, a table check whose schema USAGE check returned
\* false returns false, and a schema check whose catalog USAGE check returned
\* false returns false; in both cases the child is neither looked up in the
\* privilege store nor read from the permission cache, so an entry cached for
\* the child cannot change the answer.
C3_ParentDenies ==
    /\ (/\ last.op = "check_table_access"
        /\ ~last.user.is_admin
        /\ HasEvent(last.trace, "check_schema_access", FALSE))
       => /\ ~last.ret
          /\ ~HasKind(last.trace, "grants.TABLE")
          /\ ~ChildCacheRead
    /\ (/\ last.op = "check_schema_access"
        /\ ~last.user.is_admin
        /\ HasEvent(last.trace, "check_catalog_access", FALSE))
       => /\ ~last.ret
          /\ ~HasKind(last.trace, "grants.SCHEMA")
          /\ ~ChildCacheRead

\* a table is denied for want of schema USAGE although the store grants the
\* requested privilege on the table itself
C3_Witness ==
    /\ last.op = "check_table_access"
    /\ ~last.user.is_admin
    /\ HasEvent(last.trace, "check_schema_access", FALSE)
    /\ HasPrivilege(grants, "TABLE", last.name, last.user.email, last.priv)
    /\ ~last.ret

----------------------------------------------------------------------------
(* Claims about the query handlers *)

\* the reference whose check_table_access returned false
DeniedReference(trace) ==
    trace[CHOOSE i \in DOMAIN trace : IsTableCheck(trace[i]) /\ ~trace[i].val].name

\* C4: when validation reports the query invalid, check_query_permissions
\* emits a denied audit event and then raises PermissionError with the reason
\* validation gave; it returns no SQL and never calls
\* inject_row_level_security.
C4_DeniedQuery ==
    (/\ last.op = "check_query_permissions"
     /\ HasEvent(last.trace, "validate_query_permissions", FALSE))
    => /\ last.raised = "PermissionError"
       /\ last.reason = S_AccessDenied \o DeniedReference(last.trace)
       /\ last.out = <<>>
       /\ ~HasKind(last.trace, "inject_row_level_security")
       /\ last.trace[Len(last.trace)] = Ev("audit", last.user.email, FALSE)

\* a non-admin query on a table the user may not read is refused
C4_Witness ==
    /\ last.op = "check_query_permissions"
    /\ last.name = Q_One
    /\ ~last.user.is_admin
    /\ last.raised = "PermissionError"
    /\ HasEvent(last.trace, "audit", FALSE)

\* C5: every invocation of check_query_permissions runs validation once and
\* emits exactly one audit event: denied when validation failed, otherwise
\* granted, emitted after inject_row_level_security and last before the
\* return; this holds whatever was authorized before.
C5_OneAuditEvent ==
    last.op = "check_query_permissions" =>
        /\ Len(SelectSeq(last.trace, IsAudit)) = 1
        /\ Len(SelectSeq(last.trace, IsValidation)) = 1
        /\ IF HasEvent(last.trace, "validate_query_permissions", FALSE)
           THEN HasEvent(last.trace, "audit", FALSE)
           ELSE /\ Len(last.trace) >= 2
                /\ last.trace[Len(last.trace)] = Ev("audit", last.user.email, TRUE)
                /\ last.trace[Len(last.trace) - 1] =
                       Ev("inject_row_level_security", last.out, TRUE)
                /\ last.raised = "none"

\* a statement is authorized again when every check it needs is already
\* cached: validation still runs and a granted event is still emitted
C5_Witness ==
    /\ last.op = "check_query_permissions"
    /\ last.name = Q_One
    /\ ~last.user.is_admin
    /\ HasEvent(last.trace, "cache.read", TRUE)
    /\ ~HasKind(last.trace, "cache.write")
    /\ HasEvent(last.trace, "validate_query_permissions", TRUE)
    /\ HasEvent(last.trace, "audit", TRUE)

\* C6: for a non-admin user validate_query_permissions checks the extracted
\* references in order and stops at the first denied one, whose name is in
\* the reason; it returns (true, no reason) only when every extracted
\* reference was checked and granted.
C6_FirstDenied ==
    (last.op = "validate_query_permissions" /\ ~last.user.is_admin) =>
        LET refs == extract_table_references(last.name)
            checks == SelectSeq(last.trace, IsTableCheck)
        IN /\ Len(checks) <= Len(refs)
           /\ \A j \in DOMAIN checks : checks[j].name = refs[j]
           /\ \A j \in DOMAIN checks : j < Len(checks) => checks[j].val
           /\ IF last.ret
              THEN /\ Len(checks) = Len(refs)
                   /\ \A j \in DOMAIN checks : checks[j].val
                   /\ last.reason = NoReason
              ELSE /\ checks # <<>>
                   /\ ~checks[Len(checks)].val
                   /\ last.reason = S_AccessDenied \o refs[Len(checks)]

\* a join whose first table is granted and whose second is denied: the
\* reason names the second
C6_Witness ==
    /\ last.op = "validate_query_permissions"
    /\ last.name = Q_Join
    /\ ~last.user.is_admin
    /\ ~last.ret
    /\ Len(SelectSeq(last.trace, IsTableCheck)) = 2
    /\ last.reason = S_AccessDenied \o TableFullName(CatC, SchS, TabU)

\* C7: for a non-admin user validate_query_permissions never returns ok
\* for a statement in which no table reference was recognised.
C7_DenyUnparsed ==
    (/\ last.op = "validate_query_permissions"
     /\ ~last.user.is_admin
     /\ extract_table_references(last.name) = <<>>)
    => ~last.ret

----------------------------------------------------------------------------
(* Claims about cached authentication *)

\* the session cache holds an entry for the token younger than the TTL
Fresh(token) ==
    /\ token \in DOMAIN session_cache
    /\ now - session_cache[token][2] < cache_ttl_minutes

\* C8: get_user_context_cached with a credential makes an identity lookup
\* if and only if the session cache holds no entry for it younger than the
\* TTL: with a fresh entry it returns the UserContext stored in the entry and
\* makes no lookup; otherwise it makes a lookup and, when the lookup
\* succeeds, stores the new UserContext with a new cached_at.
C8_LookupIffNotFresh ==
    [][/\ (inflight = NoRequest /\ inflight'.kind = "get_user_context_cached")
          => ~Fresh(inflight'.token)
       /\ (/\ inflight = NoRequest
           /\ last.op = "idle"
           /\ last'.op = "get_user_context_cached"
           /\ last'.name # NoCredential)
          => /\ Fresh(last'.name)
             /\ last'.raised = "none"
             /\ last'.user = session_cache[last'.name][1]
             /\ ~HasKind(last'.trace, "identity.lookup")
             /\ session_cache' = session_cache
       /\ (/\ inflight.kind = "get_user_context_cached"
           /\ inflight.stage = "answered"
           /\ inflight.answer
           /\ inflight' = NoRequest)
          => /\ HasEvent(last'.trace, "identity.lookup", TRUE)
             /\ last'.user.authenticated_at = now
             /\ session_cache'[inflight.token] = <<last'.user, now>>]_vars

\* a call four minutes after the entry was stored is served from the cache
C8_Witness ==
    /\ last.op = "get_user_context_cached"
    /\ last.name = Tok1
    /\ last.trace = <<Ev("session.read", Tok1, TRUE)>>
    /\ now = last.user.authenticated_at + 4
    /\ session_cache[Tok1] = <<last.user, last.user.authenticated_at>>

\* C9: once the identity provider has revoked a credential at time R, every
\* get_user_context_cached call made at or after R + TTL fails with
\* AuthenticationError.
C9_BoundedStaleness ==
    (/\ last.op = "get_user_context_cached"
     /\ last.name \in DOMAIN revoked
     /\ last.at >= revoked[last.name] + cache_ttl_minutes)
    => last.raised = "AuthenticationError"

\* C10: without a credential both dependencies return the synthetic admin
\* UserContext if and only if DEV_MODE is exactly "true" and otherwise raise
\* AuthenticationError; in neither case is an identity lookup made or the
\* session cache read or written.
C10_DevModeOnly ==
    [][(/\ last.op = "idle"
        /\ last'.op \in AuthOps
        /\ last'.name = NoCredential)
       => /\ last'.raised = "none" <=> last'.env = "true"
          /\ last'.raised # "none" => last'.raised = "AuthenticationError"
          /\ last'.raised = "none" => last'.user = DevUser(now) /\ last'.user.is_admin
          /\ last'.trace = <<>>
          /\ session_cache' = session_cache
          /\ inflight' = inflight /\ inflight = NoRequest]_vars

\* the cached dependency hands out the synthetic admin in development mode
C10_Witness ==
    /\ last.op = "get_user_context_cached"
    /\ last.name = NoCredential
    /\ last.env = "true"
    /\ last.raised = "none"
    /\ last.user.email = EmailDev
    /\ last.user.is_admin

\* C11: when a credential is supplied and the identity lookup fails,
\* whether the provider rejects the credential or the call fails otherwise,
\* the dependency raises AuthenticationError and returns no UserContext,
\* whatever DEV_MODE is, and the session cache is left as it was, without an
\* entry for the credential that get_user_context_cached was called with.
C11_LookupFailure ==
    [][(/\ inflight.stage = "answered"
        /\ ~inflight.answer
        /\ inflight' = NoRequest)
       => /\ last'.op = inflight.kind
          /\ last'.raised = "AuthenticationError"
          /\ last'.user = NoUser
          /\ ~last'.ret
          /\ session_cache' = session_cache
          /\ inflight.kind = "get_user_context_cached"
                => inflight.token \notin DOMAIN session_cache']_vars

\* in development mode a call with a revoked credential, whose stale entry
\* was dropped on the way, is refused and nothing is cached for it
C11_Witness ==
    /\ last.op = "get_user_context_cached"
    /\ last.name = Tok1
    /\ last.env = "true"
    /\ Tok1 \in DOMAIN revoked
    /\ last.trace = <<Ev("session.read", Tok1, FALSE),
                      Ev("identity.lookup", Tok1, FALSE)>>
    /\ last.raised = "AuthenticationError"
    /\ Tok1 \notin DOMAIN session_cache
    /\ last.at > 0

----------------------------------------------------------------------------
(* Claims about the permission cache *)

\* the cache key of the securable the invocation in last' was asked about
AskedKey == cache_key(last'.user.email, last'.name, last'.priv)

\* C12: no step other than clear_cache, and in particular neither the passage
\* of time nor a change of grants in the privilege store, removes or changes
\* a stored permission cache entry; and a check of a non-admin user whose
\* result is stored returns the stored value without asking the store,
\* whatever the store holds by then.
C12_NoExpiry ==
    [][/\ last'.op # "clear_cache" =>
             \A e \in DOMAIN permission_cache : \A k \in DOMAIN permission_cache[e] :
                 /\ CacheHas(permission_cache', e, k)
                 /\ permission_cache'[e][k] = permission_cache[e][k]
       /\ (/\ last.op = "idle"
           /\ last'.op \in CheckOps
           /\ ~last'.user.is_admin
           /\ CacheHas(permission_cache, last'.user.email, AskedKey))
          => /\ last'.ret = permission_cache[last'.user.email][AskedKey]
             /\ \A op \in StoreOps : ~HasKind(last'.trace, op)]_vars

\* long after it was stored, a granted catalog check is still answered from
\* the cache although the store no longer holds the grant
C12_Witness ==
    /\ last.op = "check_catalog_access"
    /\ ~last.user.is_admin
    /\ last.ret
    /\ last.trace = <<Ev("cache.read", cache_key(last.user.email, CatC, last.priv), TRUE)>>
    /\ ~HasPrivilege(grants, "CATALOG", CatC, last.user.email, last.priv)
    /\ now = MaxTime

IsCatalogReturn(e) == e.kind = "check_catalog_access"
IsPrivilegeLookup(e) == e.kind = "grants.CATALOG"

\* C13: for a non-admin user two calls of check_catalog_access in a row with
\* the same arguments return the same result and together make at most one
\* lookup in the privilege store.
C13_Idempotent ==
    (last.op = "check_catalog_access twice" /\ ~last.user.is_admin) =>
        /\ SelectSeq(last.trace, IsCatalogReturn)[1].val
               = SelectSeq(last.trace, IsCatalogReturn)[2].val
        /\ Len(SelectSeq(last.trace, IsPrivilegeLookup)) <= 1

----------------------------------------------------------------------------
(* Claims about the configuration store *)

ReadThroughOps ==
    {"get_query_config", "get_all_queries", "get_filter_configs", "get_viz_configs"}

\* the configuration cache holds an entry for the key younger than the TTL
FreshConfig(key) ==
    /\ key \in DOMAIN config_cache
    /\ now - config_cache[key][2] < config_cache_ttl

\* C14: a read-through method queries the metadata store if and only if the
\* cache holds no entry for its key younger than the TTL; with a fresh entry
\* it returns the cached value, whatever it is, and leaves the cache alone;
\* otherwise it stores what the query gave, stamped with the current time,
\* and returns it.
C14_ReadThrough ==
    [][(last.op = "idle" /\ last'.op \in ReadThroughOps) =>
          /\ HasKind(last'.trace, "metadata.query") <=> ~FreshConfig(last'.name)
          /\ FreshConfig(last'.name) =>
                /\ last'.raised = "none"
                /\ last'.out = config_cache[last'.name][1]
                /\ config_cache' = config_cache
          /\ (~FreshConfig(last'.name) /\ last'.raised = "none") =>
                /\ last'.name \in DOMAIN config_cache'
                /\ config_cache'[last'.name] = <<last'.out, now>>]_vars

\* C15: build_query_from_template fails and returns no SQL whenever the
\* metadata store holds no active row for the id at the time of the call.
C15_InactiveFails ==
    (last.op = "build_query_from_template" /\ last.name \notin meta_active)
    => (last.raised # "none" /\ last.out = <<>>)

----------------------------------------------------------------------------
(* Claims about build_query_from_template *)

\* the invocation observed is a build_query_from_template that found its
\* QueryConfig
Rendered ==
    /\ last.op = "build_query_from_template"
    /\ last.name \in meta_active
    /\ last.raised \in {"none", "ValueError"}

\* the positions of the declared parameters that are required and have no
\* value in params
MissingRequired(parameters, params) ==
    {i \in 1..Len(parameters) :
        parameters[i].required /\ parameters[i].name \notin DOMAIN params}

FirstMissing(parameters, params) ==
    CHOOSE i \in MissingRequired(parameters, params) :
        \A j \in MissingRequired(parameters, params) : i <= j

\* C16 as stated: every declared parameter that is required and has no value
\* in params is named by the error the call fails with, and no SQL is returned
C16_NamesEachMissing ==
    Rendered =>
        \A i \in MissingRequired(QueryConfig(last.name).parameters, last.filters) :
            /\ last.raised = "ValueError"
            /\ last.out = <<>>
            /\ last.reason = S_RequiredMissing \o QueryConfig(last.name).parameters[i].name

\* C16: when some declared parameter is required and has no value in params,
\* the call fails with an error naming the first such parameter in declaration
\* order and returns no SQL, whatever else is supplied and whether or not that
\* parameter declares a default
C16_NamesFirstMissing ==
    (Rendered /\ MissingRequired(QueryConfig(last.name).parameters, last.filters) # {})
    => /\ last.raised = "ValueError"
       /\ ~last.ret
       /\ last.out = <<>>
       /\ last.reason =
            S_RequiredMissing
            \o QueryConfig(last.name).parameters[
                   FirstMissing(QueryConfig(last.name).parameters, last.filters)].name

\* q2 rendered with a supplied and b, required with a default, left out
C16_Witness ==
    /\ Rendered
    /\ last.name = Id_q2
    /\ DOMAIN last.filters = {N_a}
    /\ last.raised = "ValueError"
    /\ last.reason = S_RequiredMissing \o N_b

\* the declared parameters that are not required
NonRequired(parameters) == {i \in 1..Len(parameters) : ~parameters[i].required}

\* C17: the SQL returned holds no placeholder of a declared parameter that is
\* not required: the value in params, or else the declared default, has taken
\* its place
C17_DefaultSubstituted ==
    (Rendered /\ last.raised = "none")
    => \A i \in NonRequired(QueryConfig(last.name).parameters) :
          ~Contains(last.out, Placeholder(QueryConfig(last.name).parameters[i].name))

\* the declared parameters whose placeholder stands at position i of the
\* template
DeclaredAt(template, parameters, i) ==
    {k \in 1..Len(parameters) : OccursAt(template, Placeholder(parameters[k].name), i)}

RECURSIVE RenderOnce(_, _, _, _)
\* the template from position i on, each placeholder of a declared parameter
\* replaced by that parameter's value in one pass over the template: the
\* values put in are not scanned again
RenderOnce(template, parameters, params, i) ==
    IF i > Len(template) THEN <<>>
    ELSE IF DeclaredAt(template, parameters, i) # {}
    THEN ParamResolved(parameters[CHOOSE k \in DeclaredAt(template, parameters, i) : TRUE],
                       params).v
         \o RenderOnce(template, parameters, params,
                       i + Len(Placeholder(parameters[
                               CHOOSE k \in DeclaredAt(template, parameters, i) : TRUE].name)))
    ELSE <<template[i]>> \o RenderOnce(template, parameters, params, i + 1)

\* every declared parameter has a value: the one in params or its default
AllResolved(parameters, params) ==
    \A k \in 1..Len(parameters) : ParamResolved(parameters[k], params).some

\* C18: when every declared parameter has a value, the SQL returned is the
\* template with each occurrence of a declared placeholder replaced by its own
\* parameter's value and nothing else changed; the values put in are not
\* scanned for placeholders
C18_SinglePass ==
    (Rendered /\ last.raised = "none"
       /\ AllResolved(QueryConfig(last.name).parameters, last.filters))
    => last.out = RenderOnce(QueryConfig(last.name).sql_template,
                             QueryConfig(last.name).parameters, last.filters, 1)

\* s holds a token ${...}
HasPlaceholder(s) ==
    \E i \in 1..Len(s) :
        /\ OccursAt(s, <<"$","{">>, i)
        /\ \E j \in (i + 2)..Len(s) : s[j] = "}"

\* C19: the SQL build_query_from_template returns holds no ${...} placeholder;
\* a template with a placeholder that no declared parameter resolves makes the
\* call fail instead
C19_NoPlaceholderLeft ==
    (Rendered /\ last.raised = "none") => ~HasPlaceholder(last.out)

----------------------------------------------------------------------------
(* Claims about inject_row_level_security *)

\* the WHERE keyword stands at position i of sql, in any letter case
WhereAt(sql, i) ==
    /\ i + Len(S_WHERE) - 1 <= Len(sql)
    /\ \A k \in 1..Len(S_WHERE) : UpperChar(sql[i + k - 1]) = S_WHERE[k]

FirstWhere(sql) ==
    CHOOSE i \in 1..Len(sql) : WhereAt(sql, i) /\ \A j \in 1..(i - 1) : ~WhereAt(sql, j)

\* sql with  current_user() = '<email>' AND  put between the WHERE keyword
\* and the condition that follows it
WithUserPredicate(sql, email) ==
    SubSeq(sql, 1, FirstWhere(sql) + Len(S_WHERE) - 1)
    \o SubSeq(S_CurrentUser, Len(S_WHERE) + 1, Len(S_CurrentUser)) \o email \o S_QuoteAnd
    \o SubSeq(sql, FirstWhere(sql) + Len(S_WHERE), Len(sql))

\* C20: for a user who is not an administrator and no table filters, a
\* statement with a WHERE clause, in any letter case, comes back with the
\* predicate current_user() = '<email>' AND-ed in front of the condition of
\* that clause
C20_PredicateAnded ==
    (/\ last.op = "inject_row_level_security"
     /\ ~last.user.is_admin
     /\ last.filters = NoFilters
     /\ ContainsUpper(last.name, S_WHERE))
    => last.out = WithUserPredicate(last.name, last.user.email)

----------------------------------------------------------------------------
(* Claims about the data access scope *)

\* C22: can_access_table(c, s, t) is true exactly when accessible_tables
\* holds the exact name c.s.t, the schema wildcard c.s.*, the catalog
\* wildcard c.* or the global wildcard *
C22_WildcardForms ==
    last.op = "can_access_table"
    => (last.ret <=>
          \/ TableFullName(last.name[1], last.name[2], last.name[3])
                \in last.out.accessible_tables
          \/ last.name[1] \o DOT \o last.name[2] \o DOT \o S_STAR
                \in last.out.accessible_tables
          \/ last.name[1] \o DOT \o S_STAR \in last.out.accessible_tables
          \/ S_STAR \in last.out.accessible_tables)

\* the invocation observed is a get_user_data_scope for a user who is not an
\* administrator
ScopeBuilt == last.op = "get_user_data_scope" /\ ~last.user.is_admin

\* the listed catalogs for which check_catalog_access(USAGE) is true
PassingCatalogs ==
    {last.name[i] : i \in {k \in 1..Len(last.name) :
        check_catalog_access(permission_cache, grants, last.user, last.name[k],
                             S_USAGE, last.filters).ret}}

\* the catalog.schema names, over the schemas that can be listed under the
\* catalogs of cs, for which check_schema_access(USAGE) is true
PassingSchemas(cs) ==
    UNION {{SchemaFullName(c, SchemasListed(c)[j]) :
              j \in {k \in 1..Len(SchemasListed(c)) :
                  check_schema_access(permission_cache, grants, last.user, c,
                                      SchemasListed(c)[k], S_USAGE, last.filters).ret}}
           : c \in {x \in cs : ~SchemasListRaises(last.filters, x)}}

\* C27: without an enumerator failure the scope of a non-admin user holds
\* exactly the listed catalogs that pass the USAGE check and exactly the
\* schemas listed under them that pass it, so every schema of the scope lies
\* in a catalog of the scope
C27_ScopeExact ==
    (ScopeBuilt /\ last.filters \cap {"catalogs.list", "schemas.list"} = {})
    => /\ last.out.accessible_catalogs = PassingCatalogs
       /\ last.out.accessible_schemas = PassingSchemas(PassingCatalogs)
       /\ \A c \in {CatC, CatD, HiveMetastore}, sc \in {SchS, SchX} :
             can_access_schema(last.out, c, sc) => can_access_catalog(last.out, c)

\* both catalogs pass, the schema of c passes and the schema of d does not
C27_Witness ==
    /\ ScopeBuilt
    /\ last.filters = {}
    /\ last.out.accessible_catalogs = {CatC, CatD}
    /\ last.out.accessible_schemas = {SchemaFullName(CatC, SchS)}

\* C28: a collaborator failure while the scope is built does not escape and
\* does not abort the aggregation: the catalogs that were listed and pass are
\* in the scope, and so are the passing schemas of every catalog whose schemas
\* could be listed
C28_PartialScope ==
    (ScopeBuilt /\ last.filters # {})
    => /\ last.raised = "none"
       /\ last.ret
       /\ "catalogs.list" \notin last.filters
            => /\ PassingCatalogs \subseteq last.out.accessible_catalogs
               /\ PassingSchemas(PassingCatalogs) \subseteq last.out.accessible_schemas
       /\ last.out.accessible_catalogs \subseteq PassingCatalogs

\* listing the schemas of c failed: c and d are in the scope with the schema
\* of d
C28_Witness ==
    /\ ScopeBuilt
    /\ last.filters = {"schemas.list"}
    /\ last.raised = "none"
    /\ last.out.accessible_catalogs = {CatC, CatD}
    /\ last.out.accessible_schemas = {SchemaFullName(CatD, SchS)}

----------------------------------------------------------------------------
(* Claims about the session validity window *)

\* the observed get_user_context_cached was answered from the session cache
ServedFromCache ==
    /\ last.op = "get_user_context_cached"
    /\ last.raised = "none"
    /\ HasEvent(last.trace, "session.read", TRUE)

\* C23: is_session_valid(max_age) is true exactly when less than max_age
\* minutes have passed since authenticated_at; a context served from the
\* session cache is the context that was stored, and no step changes the
\* context of an entry that stays in the cache, whatever the age of the entry
C23_IndependentClocks ==
    [][/\ last'.op = "is_session_valid"
          => (last'.ret <=> last'.at - last'.user.authenticated_at < last'.out)
       /\ ServedFromCache'
          => /\ last'.name \in DOMAIN session_cache
             /\ last'.user = session_cache[last'.name][1]
       /\ \A token \in DOMAIN session_cache \cap DOMAIN session_cache' :
             session_cache'[token][2] = session_cache[token][2]
             => session_cache'[token][1] = session_cache[token][1]]_vars

\* an entry young enough to be served whose context is older than the
\* window asked for
C23_Witness ==
    /\ last.op = "is_session_valid"
    /\ ~last.ret
    /\ last.out = 2
    /\ last.name \in DOMAIN session_cache
    /\ now - session_cache[last.name][2] < cache_ttl_minutes

----------------------------------------------------------------------------
(* Claims about the configuration cache keys *)

\* what the metadata store gives a list method for these arguments
OwnResult(op, args) ==
    CASE op = "get_all_queries" ->
           get_all_queries(config_clear_cache, meta_active, args[1], FALSE, 0).value
      [] op = "get_filter_configs" ->
           get_filter_configs(config_clear_cache, args[1], args[2], FALSE, 0).value
      [] OTHER ->
           get_viz_configs(config_clear_cache, args[1], FALSE, 0).value

\* C26: a list method never returns a value cached for another method or for
\* other arguments: over a metadata store that does not change, what a call
\* returns is what the store gives for its own arguments
C26_OwnEntry ==
    (last.op \in {"get_all_queries", "get_filter_configs", "get_viz_configs"}
       /\ last.raised = "none")
    => last.out = OwnResult(last.op, last.filters)

----------------------------------------------------------------------------
(* Claims about requests running at the same time *)

\* both requests have ended after missing the same key at the same time
BothMissed ==
    \A i \in RequestIds : requests[i].pc = "done" /\ requests[i].overlap

\* C24: when two requests miss a shared cache for the same key at the same
\* time, both complete with the value they looked up, the cache then holds
\* one entry for the key, the one written by the write that completed last,
\* and the entries under other keys are the ones from before
C24_LastWriteWins ==
    BothMissed =>
        /\ \A i \in RequestIds :
              /\ requests[i].raised = "none"
              /\ requests[i].ret = requests[i].value
              /\ requests[i].order > 0
              /\ OtherEntries(requests[i].cache, requests[i].key) = requests[i].before
              /\ Cardinality({x \in Entries(requests[i].cache) :
                                 x[1] = requests[i].key}) = 1
              /\ requests[i].order = Cardinality(RequestIds)
                    => EntryOf(requests[i].cache, requests[i].key) = requests[i].wrote
        /\ \E i \in RequestIds : requests[i].order = Cardinality(RequestIds)

\* two requests with the same token both missed, and the second write
\* stored another entry than the first
C24_Witness ==
    /\ BothMissed
    /\ requests[1].cache = "session"
    /\ requests[1].wrote # requests[2].wrote
    /\ session_cache # [k \in {} |-> <<>>]

\* C25: no request fails because of what another request does to the cache:
\* every request that has ended raised nothing and returned the value it
\* read from the cache or looked up
C25_NoRequestFails ==
    \A i \in RequestIds :
        requests[i].pc = "done"
            => requests[i].raised = "none" /\ requests[i].ret = requests[i].value

====
